---- MODULE Spec2Model ----
(***************************************************************************)
(* A model of mcp-insomnia: the collection store kept in collections.json  *)
(* (PersistentStorage), the execute_request tool that runs a stored        *)
(* request and records its outcome, the template substitution both         *)
(* executors share, and the Insomnia-side store with the ancestor chain    *)
(* and the cascading environment merge of execute_insomnia_request.        *)
(*                                                                         *)
(* Strings the code scans (URLs, header values, bodies, variable values)   *)
(* are sequences of one-character strings; other strings are atoms.        *)
(***************************************************************************)
EXTENDS Integers, Sequences, FiniteSets, TLC

VARIABLES
    collections,  \* contents of collections.json: sequence of [id, requests]
    inflight,     \* execute_request invocations suspended at `await axios(...)`
    outcome,      \* what the last finished tool invocation gave its caller
    uuid,         \* number of uuidv4() values drawn so far
    started,      \* number of tool invocations begun
    inserted,     \* per request, every record that has been in its history, newest first
    subject,      \* SpecSubst: the request and variable map being executed
    insomnia,     \* the Insomnia application's NeDB files, as lists of records
    walk          \* the execute_insomnia_request invocation in progress

vars == <<collections, inflight, outcome, uuid, started, inserted, subject,
          insomnia, walk>>

----------------------------------------------------------------------------
(* Bounds of the model *)

\* execute_request invocations begun in one behaviour of Spec
MaxExec == 3
\* records addExecution stores in one behaviour of SpecHistory
MaxAdds == 22
\* ids generated (collections, folders and requests created) in one
\* behaviour of SpecCreate
MaxCreates == 4

----------------------------------------------------------------------------
(* PersistentStorage (storage.ts) *)

MAX_HISTORY_LENGTH == 20

CollectionIds == {"wrk_1", "wrk_2"}
RequestIds == {"req_1", "req_2", "req_3"}
\* ids a caller may pass that are in no store
UnknownCollectionId == "wrk_9"
UnknownRequestId == "req_9"

\* A stored request: its identity, the content execution reads, and its
\* history, meaningful only when hasHistory (the field may be absent from
\* the JSON).
NewRequest(id, parent, content) ==
    [_id |-> id, parentId |-> parent, content |-> content,
     created |-> 0, modified |-> 0,
     hasHistory |-> FALSE, history |-> <<>>]

\* Index of the first element of seq s satisfying the id test, 0 if none
\* (Array.prototype.find / Map.get on the parsed file).
IndexOfIdOrFirst(s, id) ==
    IF \E i \in 1..Len(s) : s[i].id = id
    THEN CHOOSE i \in 1..Len(s) : s[i].id = id /\ \A j \in 1..(i-1) : s[j].id # id
    ELSE 1
IndexOfId(s, id) ==
    IF \E i \in 1..Len(s) : s[i].id = id
    THEN CHOOSE i \in 1..Len(s) : s[i].id = id /\ \A j \in 1..(i-1) : s[j].id # id
    ELSE 0

IndexOfRequest(reqs, rid) ==
    IF \E i \in 1..Len(reqs) : reqs[i]._id = rid
    THEN CHOOSE i \in 1..Len(reqs) :
            reqs[i]._id = rid /\ \A j \in 1..(i-1) : reqs[j]._id # rid
    ELSE 0

\* request.history.unshift(execution)
UnshiftAsPush(history, execution) == history \o <<execution>>
Unshift(history, execution) == <<execution>> \o history

\* if (history.length > MAX_HISTORY_LENGTH) history = history.slice(0, MAX_HISTORY_LENGTH)
TruncateOffByOne(history) ==
    IF Len(history) > MAX_HISTORY_LENGTH + 1
    THEN SubSeq(history, 1, MAX_HISTORY_LENGTH + 1)
    ELSE history
Truncate(history) ==
    IF Len(history) > MAX_HISTORY_LENGTH
    THEN SubSeq(history, 1, MAX_HISTORY_LENGTH)
    ELSE history

\* PersistentStorage.addExecution: the boolean it returns and the file it
\* leaves behind.
addExecutionRestoringRequest(store, collectionId, requestId, execution) ==
    LET ci == IndexOfId(store, collectionId) IN
    IF ci = 0 THEN [ok |-> FALSE, store |-> store]
    ELSE
    LET ri == IndexOfRequest(store[ci].requests, requestId) IN
    IF ri = 0
    THEN [ok |-> TRUE,
          store |-> [store EXCEPT ![ci].requests =
                        Append(@, [_id |-> requestId, parentId |-> collectionId,
                                   content |-> [url |-> <<>>, headers |-> <<>>,
                                                hasAuth |-> FALSE,
                                                authentication |-> [type |-> "none"],
                                                hasBody |-> FALSE,
                                                body |-> [mimeType |-> "", text |-> <<>>]],
                                   created |-> 0, modified |-> 0,
                                   hasHistory |-> TRUE, history |-> <<execution>>])]]
    ELSE
    LET request == store[ci].requests[ri]
        h0 == IF request.hasHistory THEN request.history ELSE <<>>
        h1 == Truncate(Unshift(h0, execution))
    IN [ok |-> TRUE,
        store |-> [store EXCEPT ![ci].requests[ri] =
                      [request EXCEPT !.hasHistory = TRUE, !.history = h1]]]
addExecution(store, collectionId, requestId, execution) ==
    LET ci == IndexOfId(store, collectionId) IN
    IF ci = 0 THEN [ok |-> FALSE, store |-> store]
    ELSE
    LET ri == IndexOfRequest(store[ci].requests, requestId) IN
    IF ri = 0 THEN [ok |-> FALSE, store |-> store]
    ELSE
    LET request == store[ci].requests[ri]
        h0 == IF request.hasHistory THEN request.history ELSE <<>>
        h1 == Truncate(Unshift(h0, execution))
    IN [ok |-> TRUE,
        store |-> [store EXCEPT ![ci].requests[ri] =
                      [request EXCEPT !.hasHistory = TRUE, !.history = h1]]]

\* The request with this id in the store, by collection order (the lookup
\* loop of the request tools); found = FALSE when no collection holds it.
LookupRequestDefaultingToFirst(store, requestId) ==
    LET hits == {ci \in 1..Len(store) : IndexOfRequest(store[ci].requests, requestId) # 0} IN
    IF hits = {} THEN [found |-> TRUE, collectionId |-> store[1].id, ci |-> 1, ri |-> 1]
    ELSE LET ci == CHOOSE c \in hits : \A d \in hits : c <= d
         IN [found |-> TRUE, collectionId |-> store[ci].id, ci |-> ci,
             ri |-> IndexOfRequest(store[ci].requests, requestId)]
LookupRequest(store, requestId) ==
    LET hits == {ci \in 1..Len(store) : IndexOfRequest(store[ci].requests, requestId) # 0} IN
    IF hits = {} THEN [found |-> FALSE, collectionId |-> "", ci |-> 0, ri |-> 0]
    ELSE LET ci == CHOOSE c \in hits : \A d \in hits : c <= d
         IN [found |-> TRUE, collectionId |-> store[ci].id, ci |-> ci,
             ri |-> IndexOfRequest(store[ci].requests, requestId)]

HistoryOf(store, requestId) ==
    LET l == LookupRequest(store, requestId) IN
    IF l.found /\ store[l.ci].requests[l.ri].hasHistory
    THEN store[l.ci].requests[l.ri].history
    ELSE <<>>

----------------------------------------------------------------------------
(* Template substitution: text.replace(new RegExp(`{{${key}}}`, 'g'),      *)
(* String(value)) for each entry of the variable map, in entry order.      *)
(* Variable names are made of letters and "."; texts and values are over   *)
(* letters, digits, "{", "}", "$", "&", ".", ":" and "/".                  *)

\* The source text `{{key}}`.
Placeholder(key) == <<"{", "{">> \o key \o <<"}", "}">>

\* The regular expression the source text `{{key}}` compiles to, one atom
\* per character: "{" and "}" are literals here (no digit follows a "{"),
\* letters are literals, and "." matches any character.
RegExpOf(key) ==
    [i \in 1..(Len(key) + 4) |->
        IF i <= 2 THEN [any |-> FALSE, ch |-> "{"]
        ELSE IF i > Len(key) + 2 THEN [any |-> FALSE, ch |-> "}"]
        ELSE IF key[i - 2] = "." THEN [any |-> TRUE, ch |-> "."]
        ELSE [any |-> FALSE, ch |-> key[i - 2]]]

\* Whether the pattern matches the text at position i.
MatchesAt(text, i, pattern) ==
    /\ i + Len(pattern) - 1 <= Len(text)
    /\ \A j \in 1..Len(pattern) : pattern[j].any \/ pattern[j].ch = text[i + j - 1]

\* GetSubstitution for a replacement string: "$$" inserts "$", "$&" inserts
\* the matched text, any other character is itself (the pattern has no
\* capture group, and the model's alphabet has no "`" or "'").
RECURSIVE GetSubstitution(_, _)
GetSubstitution(replacement, matched) ==
    IF replacement = <<>> THEN <<>>
    ELSE IF Len(replacement) >= 2 /\ replacement[1] = "$" /\ replacement[2] = "$"
    THEN <<"$">> \o GetSubstitution(SubSeq(replacement, 3, Len(replacement)), matched)
    ELSE IF Len(replacement) >= 2 /\ replacement[1] = "$" /\ replacement[2] = "&"
    THEN matched \o GetSubstitution(SubSeq(replacement, 3, Len(replacement)), matched)
    ELSE <<replacement[1]>> \o GetSubstitution(Tail(replacement), matched)

\* String.prototype.replace with a global pattern: left to right, matches
\* do not overlap, the inserted text is not scanned again by this pattern.
RECURSIVE ReplaceFrom(_, _, _, _)
ReplaceFrom(text, i, pattern, replacement) ==
    IF i > Len(text) THEN <<>>
    ELSE IF MatchesAt(text, i, pattern)
    THEN GetSubstitution(replacement, SubSeq(text, i, i + Len(pattern) - 1))
            \o ReplaceFrom(text, i + Len(pattern), pattern, replacement)
    ELSE <<text[i]>> \o ReplaceFrom(text, i + 1, pattern, replacement)

Replace(text, pattern, replacement) == ReplaceFrom(text, 1, pattern, replacement)

\* Decimal digits of a natural number.
RECURSIVE Digits(_)
Digits(n) ==
    LET d == <<"0", "1", "2", "3", "4", "5", "6", "7", "8", "9">> IN
    IF n < 10 THEN <<d[n + 1]>> ELSE Digits(n \div 10) \o <<d[(n % 10) + 1]>>

\* A variable value: a string, a number or a boolean (field t tells which).
StringValue(s) == [t |-> "string", s |-> s, n |-> 0, b |-> FALSE]
NumberValue(n) == [t |-> "number", s |-> <<>>, n |-> n, b |-> FALSE]
BooleanValue(b) == [t |-> "boolean", s |-> <<>>, n |-> 0, b |-> b]

\* String(value)
String(value) ==
    CASE value.t = "string" -> value.s
      [] value.t = "number" ->
            IF value.n < 0 THEN <<"-">> \o Digits(0 - value.n) ELSE Digits(value.n)
      [] value.t = "boolean" ->
            IF value.b THEN <<"t", "r", "u", "e">> ELSE <<"f", "a", "l", "s", "e">>

\* Object.entries(environmentVariables).forEach(([key, value]) => text =
\* text.replace(...)): one pass per entry, each over the previous result.
RECURSIVE SubstituteFrom(_, _, _)
SubstituteFrom(text, entries, k) ==
    IF k > Len(entries) THEN text
    ELSE SubstituteFrom(Replace(text, RegExpOf(entries[k].key), String(entries[k].value)),
                        entries, k + 1)

Substitute(text, entries) == SubstituteFrom(text, entries, 1)

----------------------------------------------------------------------------
(* JSON.parse, on texts over the characters of the bodies drawn: objects,
   arrays, strings without escapes, integers, true, false and null;
   whitespace is the space. Fractions, exponents and escapes are not in
   the texts drawn and are rejected here. *)

JsonValue(t, n, s, items) == [t |-> t, n |-> n, s |-> s, items |-> items]
JsonNull == JsonValue("null", 0, <<>>, <<>>)
JsonBoolean(b) == JsonValue(IF b THEN "true" ELSE "false", 0, <<>>, <<>>)
JsonNumber(n) == JsonValue("number", n, <<>>, <<>>)
JsonString(s) == JsonValue("string", 0, s, <<>>)
JsonArray(items) == JsonValue("array", 0, <<>>, items)
\* the members of an object are entries [key, value] in property order
JsonObject(members) == JsonValue("object", 0, <<>>, members)

\* A partial parse: failure, or the value read and the position after it.
ParseFailure == [ok |-> FALSE, next |-> 0, value |-> JsonNull]
ParsedTo(next, value) == [ok |-> TRUE, next |-> next, value |-> value]

DecimalDigits == <<"0", "1", "2", "3", "4", "5", "6", "7", "8", "9">>
IsDigit(c) == \E d \in 1..Len(DecimalDigits) : DecimalDigits[d] = c
DigitValue(c) == (CHOOSE d \in 1..Len(DecimalDigits) : DecimalDigits[d] = c) - 1

RECURSIVE SkipWhitespace(_, _)
SkipWhitespace(text, i) ==
    IF i <= Len(text) /\ text[i] = " " THEN SkipWhitespace(text, i + 1) ELSE i

WordAt(text, i, word) ==
    /\ i + Len(word) - 1 <= Len(text)
    /\ SubSeq(text, i, i + Len(word) - 1) = word

\* A string from the quote at i to the next quote.
ParseString(text, i) ==
    IF i <= Len(text) /\ text[i] = "\"" /\ \E j \in (i + 1)..Len(text) : text[j] = "\""
    THEN LET j == CHOOSE j \in (i + 1)..Len(text) :
                      text[j] = "\"" /\ \A k \in (i + 1)..(j - 1) : text[k] # "\""
         IN IF \E k \in (i + 1)..(j - 1) : text[k] = "\\"
            THEN ParseFailure
            ELSE ParsedTo(j + 1, JsonString(SubSeq(text, i + 1, j - 1)))
    ELSE ParseFailure

\* The digits from i on, as a number: acc is the value read so far.
RECURSIVE ParseDigits(_, _, _)
ParseDigits(text, i, acc) ==
    IF i <= Len(text) /\ IsDigit(text[i])
    THEN ParseDigits(text, i + 1, 10 * acc + DigitValue(text[i]))
    ELSE ParsedTo(i, JsonNumber(acc))

\* An integer: an optional minus, then 0 or a digit string not starting
\* with 0; a fraction or exponent after it is rejected.
ParseNumber(text, i) ==
    LET negative == i <= Len(text) /\ text[i] = "-"
        first == IF negative THEN i + 1 ELSE i
    IN IF first > Len(text) \/ ~IsDigit(text[first]) THEN ParseFailure
       ELSE LET digits == IF text[first] = "0" THEN ParsedTo(first + 1, JsonNumber(0))
                          ELSE ParseDigits(text, first, 0)
            IN IF digits.next <= Len(text)
                  /\ (IsDigit(text[digits.next]) \/ text[digits.next] \in {".", "e", "E"})
               THEN ParseFailure
               ELSE IF negative THEN ParsedTo(digits.next, JsonNumber(0 - digits.value.n))
                    ELSE digits

RECURSIVE ParseValue(_, _)
RECURSIVE ParseItems(_, _, _)
RECURSIVE ParseMembers(_, _, _)

\* The items of an array from i on (whitespace skipped, at least one item
\* expected), up to the closing bracket.
ParseItems(text, i, items) ==
    LET item == ParseValue(text, i) IN
    IF ~item.ok THEN ParseFailure
    ELSE LET j == SkipWhitespace(text, item.next) IN
         IF j > Len(text) THEN ParseFailure
         ELSE IF text[j] = "]" THEN ParsedTo(j + 1, JsonArray(Append(items, item.value)))
         ELSE IF text[j] = "," THEN ParseItems(text, j + 1, Append(items, item.value))
         ELSE ParseFailure

\* The members of an object from i on (at least one expected), up to the
\* closing brace; a repeated key keeps its first place and takes the last
\* value.
ParseMembers(text, i, members) ==
    LET key == ParseString(text, SkipWhitespace(text, i)) IN
    IF ~key.ok THEN ParseFailure
    ELSE LET colon == SkipWhitespace(text, key.next) IN
         IF colon > Len(text) \/ text[colon] # ":" THEN ParseFailure
         ELSE LET member == ParseValue(text, colon + 1) IN
              IF ~member.ok THEN ParseFailure
              ELSE LET j == SkipWhitespace(text, member.next)
                       entry == [key |-> key.value.s, value |-> member.value]
                       assigned ==
                           IF \E m \in 1..Len(members) : members[m].key = entry.key
                           THEN [m \in 1..Len(members) |->
                                     IF members[m].key = entry.key THEN entry ELSE members[m]]
                           ELSE Append(members, entry)
                   IN IF j > Len(text) THEN ParseFailure
                      ELSE IF text[j] = "}" THEN ParsedTo(j + 1, JsonObject(assigned))
                      ELSE IF text[j] = "," THEN ParseMembers(text, j + 1, assigned)
                      ELSE ParseFailure

\* A value from i on, leading whitespace skipped.
ParseValue(text, i) ==
    LET j == SkipWhitespace(text, i) IN
    IF j > Len(text) THEN ParseFailure
    ELSE IF text[j] = "{"
         THEN LET k == SkipWhitespace(text, j + 1) IN
              IF k <= Len(text) /\ text[k] = "}" THEN ParsedTo(k + 1, JsonObject(<<>>))
              ELSE ParseMembers(text, k, <<>>)
    ELSE IF text[j] = "["
         THEN LET k == SkipWhitespace(text, j + 1) IN
              IF k <= Len(text) /\ text[k] = "]" THEN ParsedTo(k + 1, JsonArray(<<>>))
              ELSE ParseItems(text, k, <<>>)
    ELSE IF text[j] = "\"" THEN ParseString(text, j)
    ELSE IF text[j] = "-" \/ IsDigit(text[j]) THEN ParseNumber(text, j)
    ELSE IF WordAt(text, j, <<"t", "r", "u", "e">>) THEN ParsedTo(j + 4, JsonBoolean(TRUE))
    ELSE IF WordAt(text, j, <<"f", "a", "l", "s", "e">>) THEN ParsedTo(j + 5, JsonBoolean(FALSE))
    ELSE IF WordAt(text, j, <<"n", "u", "l", "l">>) THEN ParsedTo(j + 4, JsonNull)
    ELSE ParseFailure

\* JSON.parse(text): ok with the value when the whole text is one JSON
\* value, not ok when JSON.parse throws a SyntaxError.
JSONParseIgnoringRest(text) == ParseValue(text, 1)
JSONParse(text) ==
    LET r == ParseValue(text, 1) IN
    IF r.ok /\ SkipWhitespace(text, r.next) > Len(text) THEN r ELSE ParseFailure

\* The try { processedBody = JSON.parse(processedBody) } catch {} of the
\* executors, on the body after substitution: for the MIME types the
\* executor parses, data is the parsed value when the text is JSON, else
\* the text stays the data.
TryParseBody(processedBody, parsedMimeTypes) ==
    LET r == IF processedBody.hasBody /\ processedBody.mimeType \in parsedMimeTypes
             THEN JSONParse(processedBody.text)
             ELSE ParseFailure
    IN [hasBody |-> processedBody.hasBody, mimeType |-> processedBody.mimeType,
        text |-> processedBody.text, parsed |-> r.ok, value |-> r.value]

----------------------------------------------------------------------------
(* Building the outbound request *)

\* Character codes of the characters credentials are made of (Buffer.from
\* encodes a string as UTF-8, one byte per ASCII character).
AsciiCode(c) ==
    CASE c = ":" -> 58  [] c = "a" -> 97  [] c = "b" -> 98  [] c = "p" -> 112
      [] c = "t" -> 116 [] c = "u" -> 117 [] c = "x" -> 120 [] c = "{" -> 123
      [] c = "}" -> 125

Base64Alphabet ==
    <<"A","B","C","D","E","F","G","H","I","J","K","L","M","N","O","P","Q","R",
      "S","T","U","V","W","X","Y","Z","a","b","c","d","e","f","g","h","i","j",
      "k","l","m","n","o","p","q","r","s","t","u","v","w","x","y","z","0","1",
      "2","3","4","5","6","7","8","9","+","/">>

\* Buffer.prototype.toString('base64') of a byte sequence.
RECURSIVE Base64(_)
Base64(bytes) ==
    LET B(k) == Base64Alphabet[k + 1] IN
    IF bytes = <<>> THEN <<>>
    ELSE IF Len(bytes) = 1
    THEN LET n == bytes[1] * 65536
         IN <<B(n \div 262144), B((n \div 4096) % 64), "=", "=">>
    ELSE IF Len(bytes) = 2
    THEN LET n == bytes[1] * 65536 + bytes[2] * 256
         IN <<B(n \div 262144), B((n \div 4096) % 64), B((n \div 64) % 64), "=">>
    ELSE LET n == bytes[1] * 65536 + bytes[2] * 256 + bytes[3]
         IN <<B(n \div 262144), B((n \div 4096) % 64), B((n \div 64) % 64), B(n % 64)>>
               \o Base64(SubSeq(bytes, 4, Len(bytes)))

Base64OfString(s) == Base64([i \in 1..Len(s) |-> AsciiCode(s[i])])

Bearer == <<"B", "e", "a", "r", "e", "r", " ">>
Basic == <<"B", "a", "s", "i", "c", " ">>

\* A header of a request; disabled = FALSE also stands for an absent flag.
Header(name, value, disabled) == [name |-> name, value |-> value, disabled |-> disabled]

\* The content of a request that execution reads. hasAuth / hasBody tell
\* whether the optional authentication / body is present; an absent token,
\* username or password is the empty string (`?? ''`).
RequestContent(url, headers, hasAuth, auth, hasBody, body) ==
    [url |-> url, headers |-> headers, hasAuth |-> hasAuth, authentication |-> auth,
     hasBody |-> hasBody, body |-> body]

NoAuth == [type |-> "none", token |-> <<>>, username |-> <<>>, password |-> <<>>]
BearerAuth(token) == [type |-> "bearer", token |-> token, username |-> <<>>, password |-> <<>>]
BasicAuth(u, p) == [type |-> "basic", token |-> <<>>, username |-> u, password |-> p]
OtherAuth(type) == [type |-> type, token |-> <<>>, username |-> <<>>, password |-> <<>>]
NoBody == [mimeType |-> "", text |-> <<>>]
Body(mimeType, text) == [mimeType |-> mimeType, text |-> text]

\* GET x, no headers, no authentication, no body
PlainContent == RequestContent(<<"x">>, <<>>, FALSE, NoAuth, FALSE, NoBody)

\* processedHeaders after headers.forEach: a map from header name to
\* substituted value holding the headers that are not disabled; a later
\* header of the same name overwrites an earlier one.
RECURSIVE ProcessHeadersFrom(_, _, _, _)
ProcessHeadersFrom(headers, k, entries, acc) ==
    IF k > Len(headers) THEN acc
    ELSE LET h == headers[k] IN
         IF h.disabled THEN ProcessHeadersFrom(headers, k + 1, entries, acc)
         ELSE ProcessHeadersFrom(headers, k + 1, entries,
                  [n \in (DOMAIN acc) \cup {h.name} |->
                      IF n = h.name THEN Substitute(h.value, entries) ELSE acc[n]])

EmptyObject == [n \in {} |-> <<>>]

ProcessHeadersKeepingDisabled(headers, entries) ==
    ProcessHeadersFrom([i \in 1..Len(headers) |-> [headers[i] EXCEPT !.disabled = FALSE]],
                       1, entries, EmptyObject)
ProcessHeaders(headers, entries) == ProcessHeadersFrom(headers, 1, entries, EmptyObject)

\* The switch on authentication.type of execute_request: bearer and basic
\* set the Authorization header, every other type sets nothing.
ApplyAuthentication(processedHeaders, hasAuth, auth) ==
    IF ~hasAuth THEN processedHeaders
    ELSE IF auth.type = "bearer"
    THEN [n \in (DOMAIN processedHeaders) \cup {"Authorization"} |->
             IF n = "Authorization" THEN Bearer \o auth.token ELSE processedHeaders[n]]
    ELSE IF auth.type = "basic"
    THEN [n \in (DOMAIN processedHeaders) \cup {"Authorization"} |->
             IF n = "Authorization"
             THEN Basic \o Base64OfString(auth.username \o <<":">> \o auth.password)
             ELSE processedHeaders[n]]
    ELSE processedHeaders

\* processedBody before JSON.parse is tried: undefined (hasBody = FALSE)
\* when the request has no body or its text is empty, else the substituted
\* text.
ProcessBody(hasBody, body, entries) ==
    IF hasBody /\ body.text # <<>>
    THEN [hasBody |-> TRUE, mimeType |-> body.mimeType, text |-> Substitute(body.text, entries)]
    ELSE [hasBody |-> FALSE, mimeType |-> "", text |-> <<>>]

\* What execute_request hands to axios: url, headers, data.
ProcessRequest(request, environmentVariables) ==
    [url |-> Substitute(request.url, environmentVariables),
     headers |-> ApplyAuthentication(ProcessHeaders(request.headers, environmentVariables),
                                     request.hasAuth, request.authentication),
     body |-> TryParseBody(ProcessBody(request.hasBody, request.body, environmentVariables),
                           {"application/json"})]

\* targetRequest of execute_insomnia_request: the raw request's url,
\* headers and body text; the authentication descriptor is not copied.
TargetRequest(rawReq) ==
    RequestContent(rawReq.url, rawReq.headers, FALSE, NoAuth,
                   rawReq.hasBody /\ rawReq.body.text # <<>>,
                   Body(rawReq.body.mimeType, rawReq.body.text))

\* A body with the graphql member of InsomniaRequestBody (query and the
\* optional variables JSON text) beside mimeType and text.
GraphqlBody(mimeType, text, query, hasVariables, variables) ==
    [mimeType |-> mimeType, text |-> text,
     graphql |-> [query |-> query, hasVariables |-> hasVariables, variables |-> variables]]
HasGraphql(body) == "graphql" \in DOMAIN body

\* The graphql branch of execute_insomnia_request: variablesStr is
\* gql.variables || '{}' substituted, variables its parsed value or {} when
\* JSON.parse throws, query the substituted query; the data is the object
\* {query, variables}.
ProcessGraphql(gql, entries) ==
    LET variablesStr ==
            Substitute(IF gql.hasVariables /\ gql.variables # <<>> THEN gql.variables
                       ELSE <<"{", "}">>, entries)
        r == JSONParse(variablesStr)
        variables == IF r.ok THEN r.value ELSE JsonObject(<<>>)
        query == Substitute(gql.query, entries)
    IN [hasBody |-> TRUE, mimeType |-> "", text |-> <<>>, parsed |-> TRUE,
        value |-> JsonObject(<<[key |-> "query", value |-> JsonString(query)],
                               [key |-> "variables", value |-> variables]>>)]

\* What execute_insomnia_request hands to axios.
ProcessInsomniaRequest(rawReq, environmentVariables) ==
    LET targetRequest == TargetRequest(rawReq) IN
    [url |-> Substitute(targetRequest.url, environmentVariables),
     headers |-> ProcessHeaders(targetRequest.headers, environmentVariables),
     body |-> IF targetRequest.hasBody /\ HasGraphql(targetRequest.body)
              THEN ProcessGraphql(targetRequest.body.graphql, environmentVariables)
              ELSE TryParseBody(ProcessBody(targetRequest.hasBody, targetRequest.body,
                                            environmentVariables),
                                {"application/json", "application/graphql"})]

----------------------------------------------------------------------------
(* Execution records *)

\* An InsomniaExecution: _id, parentId, response.statusCode and the optional
\* error field (hasError, errorMessage).
Execution(id, requestId, statusCode, hasError, message) ==
    [_id |-> id, parentId |-> requestId, statusCode |-> statusCode,
     hasError |-> hasError, errorMessage |-> message]

\* A history of k records stored before the behaviour starts, newest first.
OldHistory(requestId, k) ==
    [i \in 1..k |-> Execution(0 - i, requestId, 200, FALSE, "")]

NoOutcome == [tool |-> "none"]
NoSubject == [request |-> PlainContent, variables |-> <<>>]
\* no Insomnia data directory content, no invocation in progress
NoInsomnia == [workspaces |-> <<>>, requestGroups |-> <<>>, environments |-> <<>>,
               requests |-> <<>>]
Idle == [pc |-> "idle"]

----------------------------------------------------------------------------
(* SpecHistory: addExecution called directly on a store whose requests    *)
(* start with no history field or with 0..MAX_HISTORY_LENGTH records.      *)

HistoryStore(k1, has1) ==
    << [id |-> "wrk_1",
        requests |-> << [NewRequest("req_1", "wrk_1", PlainContent) EXCEPT
                            !.hasHistory = has1, !.history = OldHistory("req_1", k1)],
                        NewRequest("req_2", "wrk_1", PlainContent) >>],
       [id |-> "wrk_2",
        requests |-> << [NewRequest("req_3", "wrk_2", PlainContent) EXCEPT
                            !.hasHistory = TRUE,
                            !.history = OldHistory("req_3", MAX_HISTORY_LENGTH)] >>] >>

\* history lengths req_1 starts with: empty, one record, one below the
\* retention bound, full
InitialLengths == {0, 1, MAX_HISTORY_LENGTH - 1, MAX_HISTORY_LENGTH}

InitHistory ==
    /\ \E k1 \in InitialLengths : \E has1 \in BOOLEAN :
          /\ (~has1 => k1 = 0)
          /\ collections = HistoryStore(k1, has1)
    /\ inflight = {}
    /\ outcome = NoOutcome
    /\ uuid = 0
    /\ started = 0
    /\ inserted = [r \in RequestIds |-> HistoryOf(collections, r)]
    /\ subject = NoSubject
    /\ insomnia = NoInsomnia
    /\ walk = Idle

\* One call storage.addExecution(collectionId, requestId, execution) with a
\* fresh execution record; uuid counts the records stored.
AddExecution(collectionId, requestId) ==
    /\ uuid < MaxAdds
    /\ LET execution ==
              Execution(IF requestId \in RequestIds THEN Len(inserted[requestId]) + 1 ELSE 1,
                        requestId, 200, FALSE, "")
           r == addExecution(collections, collectionId, requestId, execution)
       IN /\ collections' = r.store
          /\ outcome' = [tool |-> "addExecution", ok |-> r.ok,
                         collectionId |-> collectionId, requestId |-> requestId,
                         execution |-> execution]
          /\ inserted' = IF r.ok
                         THEN [inserted EXCEPT ![requestId] = <<execution>> \o @]
                         ELSE inserted
          /\ uuid' = IF r.ok THEN uuid + 1 ELSE uuid
    /\ UNCHANGED <<inflight, started, subject, insomnia, walk>>

NextHistory ==
    \E c \in CollectionIds \cup {UnknownCollectionId} :
        \E r \in RequestIds \cup {UnknownRequestId} : AddExecution(c, r)

SpecHistory == InitHistory /\ [][NextHistory]_vars

----------------------------------------------------------------------------
(* The transport (axios) *)

\* What the network does with one request: a response with a status code,
\* or no response at all (connection refused, DNS failure, timeout).
StatusCodes == {200, 204, 404, 500}
NoResponseMessages == {"connect ECONNREFUSED", "timeout of 30000ms exceeded"}

TransportOutcomes ==
    {[hasResponse |-> TRUE, status |-> st, message |-> "Request failed with status code"] :
        st \in StatusCodes}
    \cup {[hasResponse |-> FALSE, status |-> 0, message |-> m] : m \in NoResponseMessages}

\* validateStatus: () => true, which execute_insomnia_request passes.
ValidateStatusAcceptingAll(status) == TRUE
\* axios's default validateStatus, used when the call passes none.
DefaultValidateStatus(status) == status >= 200 /\ status < 300

\* Whether `await axios(...)` of execute_request resolves (else it rejects
\* with an error whose response field is set only if a response came).
AxiosResolves(t) == t.hasResponse /\ DefaultValidateStatus(t.status)

----------------------------------------------------------------------------
(* Spec: execute_request on the persistent store.  The handler is two     *)
(* steps: up to `await axios(...)`, and from the settled promise on.       *)

KeyA == <<"a">>
KeyB == <<"b">>
KeyC == <<"c">>
KeyDot == <<".">>
Entry(key, value) == [key |-> key, value |-> value]

\* {{a}}/x with bearer token {{a}}
TemplatedContent ==
    RequestContent(Placeholder(KeyA) \o <<"/", "x">>,
                   <<Header("Accept", Placeholder(KeyA), FALSE)>>,
                   TRUE, BearerAuth(Placeholder(KeyA)), FALSE, NoBody)

InitialStore ==
    << [id |-> "wrk_1",
        requests |-> << NewRequest("req_1", "wrk_1", TemplatedContent),
                        NewRequest("req_2", "wrk_1", PlainContent) >>],
       [id |-> "wrk_2",
        requests |-> << [NewRequest("req_3", "wrk_2", PlainContent) EXCEPT
                            !.hasHistory = TRUE,
                            !.history = OldHistory("req_3", 1)] >>] >>

\* the environmentVariables argument of the calls made in Spec
CallVariables == { <<>>, <<Entry(KeyA, StringValue(<<"x">>))>> }

Init ==
    /\ collections = InitialStore
    /\ inflight = {}
    /\ outcome = NoOutcome
    /\ uuid = 0
    /\ started = 0
    /\ inserted = [r \in RequestIds |-> HistoryOf(collections, r)]
    /\ subject = NoSubject
    /\ insomnia = NoInsomnia
    /\ walk = Idle

\* execute_request up to the await: look the request up in the store (throw
\* when no collection holds it), build the outbound request, call axios.
ExecuteRequestBegin(requestId, environmentVariables) ==
    /\ started < MaxExec
    /\ started' = started + 1
    /\ LET l == LookupRequest(collections, requestId) IN
       IF ~l.found
       THEN /\ outcome' = [tool |-> "execute_request", call |-> started + 1,
                           requestId |-> requestId, existing |-> FALSE,
                           kind |-> "throw", error |-> FALSE,
                           message |-> "Request not found", status |-> 0,
                           transport |-> [hasResponse |-> FALSE, status |-> 0, message |-> "none"]]
            /\ UNCHANGED inflight
       ELSE /\ inflight' = inflight \cup
                  {[call |-> started + 1, requestId |-> requestId,
                    collectionId |-> l.collectionId,
                    sent |-> ProcessRequest(collections[l.ci].requests[l.ri].content,
                                            environmentVariables)]}
            /\ UNCHANGED outcome
    /\ UNCHANGED <<collections, uuid, inserted, subject, insomnia, walk>>

\* The history record of the try block (a response that passed
\* validateStatus): no error field.
SuccessExecution(id, requestId, t) == Execution(id, requestId, t.status, FALSE, "")

\* The history record of the catch block: statusCode error.response?.status
\* ?? 0 and the error field.
FailureExecution(id, requestId, t) == Execution(id, requestId, t.status, TRUE, t.message)

\* Whether building the catch block's record throws: size is
\* JSON.stringify(error.response?.data).length, and JSON.stringify(undefined)
\* is undefined when there is no response.
CatchBlockThrows(t) == ~t.hasResponse

\* execute_request from the settled axios promise to its return or throw.
ExecuteRequestSettle(call, t) ==
    /\ call \in inflight
    /\ inflight' = inflight \ {call}
    /\ uuid' = uuid + 1
    /\ LET done(kind, err, msg) ==
              [tool |-> "execute_request", call |-> call.call,
               requestId |-> call.requestId, existing |-> TRUE,
               kind |-> kind, error |-> err,
               message |-> msg, status |-> t.status, transport |-> t]
           record(execution) ==
              LET r == addExecution(collections, call.collectionId, call.requestId, execution)
              IN /\ collections' = r.store
                 /\ inserted' = IF r.ok
                                THEN [inserted EXCEPT ![call.requestId] = <<execution>> \o @]
                                ELSE inserted
       IN IF AxiosResolves(t)
          THEN /\ record(SuccessExecution(uuid + 1, call.requestId, t))
               /\ outcome' = done("result", FALSE, "")
          ELSE IF CatchBlockThrows(t)
          THEN /\ outcome' = done("throw", FALSE, "TypeError")
               /\ UNCHANGED <<collections, inserted>>
          ELSE /\ record(FailureExecution(uuid + 1, call.requestId, t))
               /\ outcome' = done("errorResult", TRUE, t.message)
    /\ UNCHANGED <<started, subject, insomnia, walk>>

Next ==
    \/ \E r \in RequestIds \cup {UnknownRequestId} : \E ev \in CallVariables :
          ExecuteRequestBegin(r, ev)
    \/ \E call \in inflight : \E t \in TransportOutcomes : ExecuteRequestSettle(call, t)

Spec == Init /\ [][Next]_vars

----------------------------------------------------------------------------
(* SpecSubst: the outbound request each executor builds, over requests and *)
(* variable maps drawn from small sets.                                    *)

SubstPieces == { <<>>, Placeholder(KeyA), Placeholder(KeyB), Placeholder(KeyC), <<"/", "x">> }
SubstTexts == { p \o q : p \in SubstPieces, q \in SubstPieces }

SubstValues ==
    { StringValue(<<"x">>), StringValue(Placeholder(KeyA)), StringValue(Placeholder(KeyB)),
      StringValue(<<"$", "$">>), StringValue(<<"$", "&">>),
      NumberValue(42), BooleanValue(TRUE) }
SubstPlainValues ==
    { StringValue(<<"x">>), StringValue(Placeholder(KeyA)), StringValue(Placeholder(KeyB)),
      NumberValue(42) }

\* variable maps of at most MaxEntries entries, in Object.entries order
MaxEntries == 2
SubstMaps ==
    { <<>> }
    \cup { <<Entry(k, v)>> : k \in {KeyA, KeyB, KeyDot}, v \in SubstValues }
    \cup (IF MaxEntries >= 2
          THEN { <<Entry(k[1], v), Entry(k[2], w)>> :
                    k \in {<<KeyA, KeyB>>, <<KeyB, KeyA>>},
                    v \in SubstPlainValues, w \in SubstPlainValues }
          ELSE {})
    \cup (IF MaxEntries >= 3
          THEN { <<Entry(KeyA, StringValue(Placeholder(KeyB))),
                   Entry(KeyB, StringValue(Placeholder(KeyC))),
                   Entry(KeyC, v)>> : v \in SubstPlainValues }
          ELSE {})

\* headers, authentication and body of the requests drawn
SubstShapes ==
    { [headers |-> <<>>, hasAuth |-> FALSE, auth |-> NoAuth,
       hasBody |-> FALSE, body |-> NoBody],
      [headers |-> <<Header("Accept", Placeholder(KeyA), FALSE)>>,
       hasAuth |-> TRUE, auth |-> BearerAuth(Placeholder(KeyA)),
       hasBody |-> TRUE, body |-> Body("application/json", Placeholder(KeyA))],
      [headers |-> <<Header("Accept", <<"x">>, FALSE), Header("X-Id", Placeholder(KeyB), TRUE)>>,
       hasAuth |-> TRUE, auth |-> BasicAuth(<<"u">>, <<"p">>),
       hasBody |-> TRUE, body |-> Body("text/plain", Placeholder(KeyB) \o <<"x">>)],
      [headers |-> <<Header("Accept", Placeholder(KeyA), TRUE), Header("Accept", Placeholder(KeyB), FALSE)>>,
       hasAuth |-> TRUE, auth |-> OtherAuth("oauth2"),
       hasBody |-> TRUE, body |-> Body("application/json", <<>>)],
      [headers |-> <<Header("X-Id", Placeholder(KeyA), TRUE)>>,
       hasAuth |-> TRUE, auth |-> BearerAuth(<<"t">>),
       hasBody |-> FALSE, body |-> NoBody] }

InitSubst ==
    /\ \E url \in SubstTexts : \E shape \in SubstShapes : \E variables \in SubstMaps :
          subject = [request |-> RequestContent(url, shape.headers, shape.hasAuth, shape.auth,
                                                shape.hasBody, shape.body),
                     variables |-> variables]
    /\ collections = <<>>
    /\ inflight = {}
    /\ outcome = NoOutcome
    /\ uuid = 0
    /\ started = 0
    /\ inserted = [r \in RequestIds |-> <<>>]
    /\ insomnia = NoInsomnia
    /\ walk = Idle

\* execute_request builds the outbound request of the subject.
BuildRequest ==
    /\ outcome' = [tool |-> "outbound", path |-> "execute_request",
                   sent |-> ProcessRequest(subject.request, subject.variables)]
    /\ UNCHANGED <<collections, inflight, uuid, started, inserted, subject, insomnia, walk>>

\* execute_insomnia_request builds the outbound request of the subject,
\* the variable map being the merged environment.
BuildInsomniaRequest ==
    /\ outcome' = [tool |-> "outbound", path |-> "execute_insomnia_request",
                   sent |-> ProcessInsomniaRequest(subject.request, subject.variables)]
    /\ UNCHANGED <<collections, inflight, uuid, started, inserted, subject, insomnia, walk>>

NextSubst == BuildRequest \/ BuildInsomniaRequest

SpecSubst == InitSubst /\ [][NextSubst]_vars

----------------------------------------------------------------------------
(* SpecBody: the executors on requests with a templated body *)

Quote == "\""
BodyIdPrefix == <<"{", Quote, "i", "d", Quote, ":", " ">>

\* {"id": {{a}}    {"id": {{a}}}    {{a}}    [{{a}}, {{b}}]    {{a}} {{b}}
BodyTexts ==
    { BodyIdPrefix \o Placeholder(KeyA),
      BodyIdPrefix \o Placeholder(KeyA) \o <<"}">>,
      Placeholder(KeyA),
      <<"[">> \o Placeholder(KeyA) \o <<",", " ">> \o Placeholder(KeyB) \o <<"]">>,
      Placeholder(KeyA) \o <<" ">> \o Placeholder(KeyB) }

BodyMimeTypes == {"application/json", "application/graphql", "text/plain"}

\* a is absent, 5, x, true or "x" (with its quotes); b is absent or 0
BodyMaps ==
    { first \o second :
        first \in { <<>>, <<Entry(KeyA, NumberValue(5))>>, <<Entry(KeyA, StringValue(<<"x">>))>>,
                    <<Entry(KeyA, BooleanValue(TRUE))>>,
                    <<Entry(KeyA, StringValue(<<Quote, "x", Quote>>))>> },
        second \in { <<>>, <<Entry(KeyB, NumberValue(0))>> } }

InitBody ==
    /\ \E text \in BodyTexts, mimeType \in BodyMimeTypes, variables \in BodyMaps :
          subject = [request |-> RequestContent(<<"x">>, <<>>, FALSE, NoAuth,
                                                TRUE, Body(mimeType, text)),
                     variables |-> variables]
    /\ collections = <<>>
    /\ inflight = {}
    /\ outcome = NoOutcome
    /\ uuid = 0
    /\ started = 0
    /\ inserted = [r \in RequestIds |-> <<>>]
    /\ insomnia = NoInsomnia
    /\ walk = Idle

SpecBody == InitBody /\ [][NextSubst]_vars

----------------------------------------------------------------------------
(* SpecGraphql: the executors on requests whose body has a graphql member *)

GraphqlQueries == { <<"q">>, Placeholder(KeyA) }
\* {}    {"id": {{a}}}    {{a}}    {"id": (malformed)
GraphqlVariables ==
    { <<"{", "}">>, BodyIdPrefix \o Placeholder(KeyA) \o <<"}">>, Placeholder(KeyA),
      BodyIdPrefix }
\* the text member beside graphql: none, or {"query": "q"}
GraphqlTexts ==
    { <<>>, <<"{", Quote, "q", "u", "e", "r", "y", Quote, ":", " ", Quote, "q", Quote, "}">> }

InitGraphql ==
    /\ \E query \in GraphqlQueries, hasVariables \in BOOLEAN, text \in GraphqlTexts,
          variables \in BodyMaps :
          \E variablesText \in (IF hasVariables THEN GraphqlVariables ELSE {<<>>}) :
             subject = [request |->
                           RequestContent(<<"x">>, <<>>, FALSE, NoAuth, TRUE,
                               GraphqlBody("application/graphql", text, query,
                                           hasVariables, variablesText)),
                        variables |-> variables]
    /\ collections = <<>>
    /\ inflight = {}
    /\ outcome = NoOutcome
    /\ uuid = 0
    /\ started = 0
    /\ inserted = [r \in RequestIds |-> <<>>]
    /\ insomnia = NoInsomnia
    /\ walk = Idle

SpecGraphql == InitGraphql /\ [][NextSubst]_vars

----------------------------------------------------------------------------
(* InsomniaStorage: the Insomnia application's NeDB files, read as lists of
   records in file order (find returns the first record that matches) *)

\* Ids by prefix, for String.prototype.startsWith on "wrk_" and "fld_";
\* "", "proj_1" and the environment ids carry neither prefix.
WorkspacePrefixed == {"wrk_1", "wrk_9", "wrk_g"}
FolderPrefixed == {"fld_1", "fld_2", "fld_3", "fld_9"}
StartsWith(id, prefix) ==
    CASE prefix = "wrk_" -> id \in WorkspacePrefixed
      [] prefix = "fld_" -> id \in FolderPrefixed
      [] OTHER -> FALSE

\* The records of a file, as a set.
Records(file) == {file[i] : i \in 1..Len(file)}

\* Array.prototype.find: the index of the first record among those passing
\* the test, 0 when there is none.
FindIndex(records, passing) ==
    IF \E i \in 1..Len(records) : records[i] \in passing
    THEN CHOOSE i \in 1..Len(records) :
             records[i] \in passing /\ \A j \in 1..(i - 1) : records[j] \notin passing
    ELSE 0

\* Raw records of insomnia.Workspace.db, insomnia.RequestGroup.db,
\* insomnia.Environment.db and insomnia.Request.db.
WorkspaceRaw(id, parentId, scope) == [_id |-> id, parentId |-> parentId, scope |-> scope]
RequestGroupRaw(id, parentId, environment) ==
    [_id |-> id, parentId |-> parentId, environment |-> environment]
EnvironmentRaw(id, parentId, data) == [_id |-> id, parentId |-> parentId, data |-> data]
RequestRaw(id, parentId, url) ==
    [_id |-> id, parentId |-> parentId, url |-> url, headers |-> <<>>,
     hasBody |-> FALSE, body |-> NoBody]

\* The result of an environment lookup: null, or the record's data.
NoEnvironment == [found |-> FALSE, data |-> <<>>]
FoundEnvironment(e) == [found |-> TRUE, data |-> e.data]

\* getWorkspaceProjectId: the workspace's parentId, "" standing for null
\* (workspace?.parentId || null: an empty parentId is falsy as well).
getWorkspaceProjectId(store, workspaceId) ==
    LET w == FindIndex(store.workspaces, {r \in Records(store.workspaces) : r._id = workspaceId}) IN
    IF w = 0 THEN "" ELSE store.workspaces[w].parentId

\* getGlobalEnvironment: the first environment whose parent is the first
\* workspace of the project with scope 'environment'.
getGlobalEnvironment(store, projectId) ==
    IF projectId = "" THEN NoEnvironment
    ELSE LET g == FindIndex(store.workspaces,
                            {r \in Records(store.workspaces) :
                                 r.parentId = projectId /\ r.scope = "environment"}) IN
         IF g = 0 THEN NoEnvironment
         ELSE LET e == FindIndex(store.environments,
                                 {r \in Records(store.environments) :
                                      r.parentId = store.workspaces[g]._id}) IN
              IF e = 0 THEN NoEnvironment ELSE FoundEnvironment(store.environments[e])

\* getBaseEnvironment: the first environment whose parent is the workspace.
getBaseEnvironment(store, workspaceId) ==
    LET e == FindIndex(store.environments,
                      {r \in Records(store.environments) : r.parentId = workspaceId}) IN
    IF e = 0 THEN NoEnvironment ELSE FoundEnvironment(store.environments[e])

\* An entry of the chain getAncestorChain returns.
ChainEntry(id, type) == [id |-> id, type |-> type]

\* chain.unshift(entry): the entry goes to the front.
ChainPush(chain, entry) == Append(chain, entry)
ChainUnshift(chain, entry) == <<entry>> \o chain

\* The while condition of getAncestorChain.
LoopContinuesIgnoringVisited(currentId, visited) == currentId # ""
LoopContinues(currentId, visited) == currentId # "" /\ currentId \notin visited

\* allWorkspaces.find((w) => w._id === currentId) found a record.
WorkspaceAssumed(store, id) == TRUE
WorkspaceFound(store, id) ==
    FindIndex(store.workspaces, {r \in Records(store.workspaces) : r._id = id}) # 0

\* One pass through the body of the while loop of getAncestorChain, on the
\* loop state w (currentId, visited, chain, iterations, pc): pc becomes
\* "returned" on a break.
LoopBody(store, w) ==
    LET currentId == w.currentId
        seen == [w EXCEPT !.visited = @ \cup {currentId}, !.iterations = @ + 1]
        break == [seen EXCEPT !.pc = "returned"]
    IN
    IF StartsWith(currentId, "wrk_")
    THEN IF WorkspaceFound(store, currentId)
         THEN [break EXCEPT !.chain = ChainUnshift(@, ChainEntry(currentId, "workspace"))]
         ELSE break
    ELSE IF StartsWith(currentId, "fld_")
         THEN LET f == FindIndex(store.requestGroups,
                                 {r \in Records(store.requestGroups) : r._id = currentId}) IN
              IF f # 0
              THEN [seen EXCEPT !.chain = ChainUnshift(@, ChainEntry(currentId, "folder")),
                                !.currentId = store.requestGroups[f].parentId]
              ELSE break
         ELSE break

----------------------------------------------------------------------------
(* execute_insomnia_request: the environment merge *)

\* Object.assign for one property: an existing key keeps its place and
\* takes the new value, a new key goes last.
AssignEntryKeepingExisting(target, entry) ==
    IF \E i \in 1..Len(target) : target[i].key = entry.key
    THEN target
    ELSE Append(target, entry)
AssignEntry(target, entry) ==
    IF \E i \in 1..Len(target) : target[i].key = entry.key
    THEN [i \in 1..Len(target) |-> IF target[i].key = entry.key THEN entry ELSE target[i]]
    ELSE Append(target, entry)

RECURSIVE ObjectAssignFrom(_, _, _)
ObjectAssignFrom(target, source, k) ==
    IF k > Len(source) THEN target
    ELSE ObjectAssignFrom(AssignEntry(target, source[k]), source, k + 1)

ObjectAssign(target, source) == ObjectAssignFrom(target, source, 1)

\* SelectSeq on the chain: filter((a) => a.type === type).
ChainOfType(ancestors, type) == SelectSeq(ancestors, LAMBDA a : a.type = type)

\* workspaceId of the handler, "" standing for null.
WorkspaceIdOf(rawReq, ancestors) ==
    LET workspaceAncestor == ChainOfType(ancestors, "workspace") IN
    IF workspaceAncestor # <<>> THEN workspaceAncestor[1].id
    ELSE IF StartsWith(rawReq.parentId, "wrk_") THEN rawReq.parentId ELSE ""

\* Steps 2 and 3: the global environment of the workspace's project, then
\* the base environment of the workspace.
MergeWorkspaceEnvironmentsNeedingGlobal(store, environmentVariables, workspaceId) ==
    LET globalEnv == getGlobalEnvironment(store, getWorkspaceProjectId(store, workspaceId))
        baseEnv == getBaseEnvironment(store, workspaceId)
    IN IF workspaceId = "" \/ ~globalEnv.found \/ ~baseEnv.found THEN environmentVariables
       ELSE ObjectAssign(ObjectAssign(environmentVariables, globalEnv.data), baseEnv.data)
MergeWorkspaceEnvironments(store, environmentVariables, workspaceId) ==
    IF workspaceId = "" THEN environmentVariables
    ELSE LET projectId == getWorkspaceProjectId(store, workspaceId)
             globalEnv == IF projectId # "" THEN getGlobalEnvironment(store, projectId)
                          ELSE NoEnvironment
             afterGlobal == IF globalEnv.found
                            THEN ObjectAssign(environmentVariables, globalEnv.data)
                            ELSE environmentVariables
             baseEnv == getBaseEnvironment(store, workspaceId)
         IN IF baseEnv.found THEN ObjectAssign(afterGlobal, baseEnv.data) ELSE afterGlobal

\* Step 4: the environment named by environmentId ("" when not given).
MergeSubEnvironment(store, environmentVariables, environmentId) ==
    IF environmentId = "" THEN environmentVariables
    ELSE LET e == FindIndex(store.environments,
                           {r \in Records(store.environments) : r._id = environmentId}) IN
         IF e = 0 THEN environmentVariables
         ELSE ObjectAssign(environmentVariables, store.environments[e].data)

\* Step 5: the folder environments in chain order; m holds the variable
\* map, the warnings gathered so far, and folderOrder, the ids of the
\* folders whose environment has been assigned, in the order of assignment.
RECURSIVE MergeFolderEnvironments(_, _, _, _)
MergeFolderEnvironments(store, m, folderIds, k) ==
    IF k > Len(folderIds) THEN m
    ELSE LET f == FindIndex(store.requestGroups,
                           {r \in Records(store.requestGroups) : r._id = folderIds[k]}) IN
         IF f = 0
         THEN MergeFolderEnvironments(
                  store, [m EXCEPT !.warnings = Append(@, [type |-> "FOLDER_NOT_FOUND",
                                                           folderId |-> folderIds[k]])],
                  folderIds, k + 1)
         ELSE IF Len(store.requestGroups[f].environment) > 0
              THEN MergeFolderEnvironments(
                       store, [m EXCEPT !.environmentVariables =
                                   ObjectAssign(@, store.requestGroups[f].environment),
                                         !.folderOrder = Append(@, folderIds[k])],
                       folderIds, k + 1)
              ELSE MergeFolderEnvironments(store, m, folderIds, k + 1)

\* Steps 1 to 6 on the chain getAncestorChain returned.
MergeEnvironment(store, rawReq, ancestors, environmentId, hasOverride, overrideVariables) ==
    LET workspaceId == WorkspaceIdOf(rawReq, ancestors)
        afterBase == MergeWorkspaceEnvironments(store, <<>>, workspaceId)
        afterSub == MergeSubEnvironment(store, afterBase, environmentId)
        folders == ChainOfType(ancestors, "folder")
        folderIds == [i \in 1..Len(folders) |-> folders[i].id]
        afterFolders == MergeFolderEnvironments(
                            store, [environmentVariables |-> afterSub, warnings |-> <<>>,
                                    folderOrder |-> <<>>],
                            folderIds, 1)
    IN [afterFolders EXCEPT !.environmentVariables =
            IF hasOverride THEN ObjectAssign(@, overrideVariables) ELSE @]

----------------------------------------------------------------------------
(* SpecInsomnia: execute_insomnia_request on an Insomnia data directory *)

FolderIds == {"fld_1", "fld_2", "fld_3"}
\* What a folder's parentId may hold: the workspace, a folder (itself
\* included), a folder or workspace without record, nothing, another id.
ParentIds == {"wrk_1", "fld_1", "fld_2", "fld_3", "fld_9", "wrk_9", "", "proj_1"}
LayerOptions == {"missing", "empty", "defined"}
FolderOptions == {"empty", "defined"}

\* The data each scope holds when it defines variables: every scope its
\* own value for key a, the base environment and fld_1 also one for key b.
ScopeData(scope) ==
    CASE scope = "global" -> <<Entry(KeyA, StringValue(<<"G">>))>>
      [] scope = "base" -> <<Entry(KeyB, StringValue(<<"B", "b">>)),
                             Entry(KeyA, StringValue(<<"B">>))>>
      [] scope = "sub" -> <<Entry(KeyA, StringValue(<<"S">>))>>
      [] scope = "fld_1" -> <<Entry(KeyA, StringValue(<<"1">>)),
                              Entry(KeyB, StringValue(<<"1", "b">>))>>
      [] scope = "fld_2" -> <<Entry(KeyA, NumberValue(2))>>
      [] scope = "fld_3" -> <<Entry(KeyA, StringValue(<<"3">>))>>
      [] scope = "override" -> <<Entry(KeyA, StringValue(<<"O">>))>>

DataOf(scope, option) == IF option = "defined" THEN ScopeData(scope) ELSE <<>>

InsomniaUrl == Placeholder(KeyA) \o <<"/">> \o Placeholder(KeyB)

\* A data directory: workspace wrk_1 of project proj_1, the project's
\* global-environment workspace wrk_g with environment env_g, the base
\* environment env_b of wrk_1 with sub-environment env_s, three folders,
\* and request req_1.
InsomniaStore(requestParent, parents, global, base, sub, folderEnvironments) ==
    [workspaces |->
         <<WorkspaceRaw("wrk_1", "proj_1", "collection")>> \o
         (IF global = "missing" THEN <<>>
          ELSE <<WorkspaceRaw("wrk_g", "proj_1", "environment")>>),
     requestGroups |->
         <<RequestGroupRaw("fld_1", parents["fld_1"], DataOf("fld_1", folderEnvironments["fld_1"])),
           RequestGroupRaw("fld_2", parents["fld_2"], DataOf("fld_2", folderEnvironments["fld_2"])),
           RequestGroupRaw("fld_3", parents["fld_3"], DataOf("fld_3", folderEnvironments["fld_3"]))>>,
     environments |->
         (IF global = "missing" THEN <<>>
          ELSE <<EnvironmentRaw("env_g", "wrk_g", DataOf("global", global))>>) \o
         (IF base = "missing" THEN <<>>
          ELSE <<EnvironmentRaw("env_b", "wrk_1", DataOf("base", base))>>) \o
         (IF sub = "missing" THEN <<>>
          ELSE <<EnvironmentRaw("env_s", "env_b", DataOf("sub", sub))>>),
     requests |-> <<RequestRaw("req_1", requestParent, InsomniaUrl)>>]

Links(p1, p2, p3) == [f \in FolderIds |-> CASE f = "fld_1" -> p1 [] f = "fld_2" -> p2 [] f = "fld_3" -> p3]

\* Hierarchies the environment layers are varied on: a full chain, a
\* request directly in the workspace, a cycle, a missing folder, a
\* workspace without record, a chain beside a self-parent folder.
LinkShapes ==
    { [requestParent |-> "fld_1", parents |-> Links("fld_2", "fld_3", "wrk_1")],
      [requestParent |-> "wrk_1", parents |-> Links("wrk_1", "wrk_1", "wrk_1")],
      [requestParent |-> "fld_1", parents |-> Links("fld_2", "fld_1", "wrk_1")],
      [requestParent |-> "fld_2", parents |-> Links("wrk_1", "fld_9", "wrk_1")],
      [requestParent |-> "wrk_9", parents |-> Links("wrk_1", "wrk_1", "wrk_1")],
      [requestParent |-> "fld_2", parents |-> Links("wrk_1", "fld_1", "fld_3")] }

AllDefined == [f \in FolderIds |-> "defined"]

InitInsomnia ==
    /\ collections = <<>>
    /\ inflight = {}
    /\ outcome = NoOutcome
    /\ uuid = 0
    /\ started = 0
    /\ inserted = [r \in RequestIds |-> <<>>]
    /\ subject = NoSubject
    /\ walk = Idle
    /\ \/ \E parents \in [FolderIds -> ParentIds] :
              insomnia = InsomniaStore("fld_1", parents, "defined", "defined", "defined",
                                       AllDefined)
       \/ \E shape \in LinkShapes, global \in LayerOptions, base \in LayerOptions,
             sub \in LayerOptions, folderEnvironments \in [FolderIds -> FolderOptions] :
              insomnia = InsomniaStore(shape.requestParent, shape.parents, global, base, sub,
                                       folderEnvironments)

\* The arguments of a call.
InsomniaRequestIds == {"req_1", UnknownRequestId}
EnvironmentIdArguments == {"", "env_s"}
OverrideArguments ==
    { [has |-> FALSE, variables |-> <<>>],
      [has |-> TRUE, variables |-> <<>>],
      [has |-> TRUE, variables |-> ScopeData("override")] }

\* execute_insomnia_request up to the call of getAncestorChain: the
\* request is looked up (an unknown id throws) and the walk starts at the
\* request's parentId.
ExecuteInsomniaRequestBegin(requestId, environmentId, override) ==
    /\ walk.pc = "idle"
    /\ LET r == FindIndex(insomnia.requests,
                           {q \in Records(insomnia.requests) : q._id = requestId}) IN
       IF r = 0
       THEN /\ outcome' = [tool |-> "execute_insomnia_request", kind |-> "throw",
                           requestId |-> requestId]
            /\ walk' = walk
       ELSE /\ outcome' = NoOutcome
            /\ walk' = [pc |-> "walking", requestId |-> requestId,
                        environmentId |-> environmentId,
                        hasOverride |-> override.has,
                        overrideVariables |-> override.variables,
                        currentId |-> insomnia.requests[r].parentId,
                        visited |-> {}, chain |-> <<>>, iterations |-> 0]
    /\ UNCHANGED <<collections, inflight, uuid, started, inserted, subject, insomnia>>

\* getAncestorChain: the while condition is tested; the loop is left when
\* it fails, else its body runs once.
AncestorChainStep ==
    /\ walk.pc = "walking"
    /\ walk' = IF LoopContinues(walk.currentId, walk.visited)
               THEN LoopBody(insomnia, walk)
               ELSE [walk EXCEPT !.pc = "returned"]
    /\ UNCHANGED <<collections, inflight, outcome, uuid, started, inserted, subject, insomnia>>

\* Whether `await axios(...)` of execute_insomnia_request resolves.
InsomniaAxiosResolves(t) == t.hasResponse /\ ValidateStatusAcceptingAll(t.status)

\* execute_insomnia_request from the return of getAncestorChain: the merge,
\* the substitution, and the HTTP call with validateStatus accepting every
\* status, whose transport outcome t decides between the success result
\* and the error result.
ExecuteInsomniaRequestSettle(t) ==
    /\ walk.pc = "returned"
    /\ LET r == FindIndex(insomnia.requests,
                           {q \in Records(insomnia.requests) : q._id = walk.requestId})
           rawReq == insomnia.requests[r]
           merged == MergeEnvironment(insomnia, rawReq, walk.chain, walk.environmentId,
                                      walk.hasOverride, walk.overrideVariables)
       IN outcome' = [tool |-> "execute_insomnia_request",
                      kind |-> IF InsomniaAxiosResolves(t) THEN "result"
                               ELSE "errorResult",
                      requestId |-> walk.requestId,
                      environmentId |-> walk.environmentId,
                      hasOverride |-> walk.hasOverride,
                      overrideVariables |-> walk.overrideVariables,
                      ancestors |-> walk.chain,
                      environmentVariables |-> merged.environmentVariables,
                      warnings |-> merged.warnings,
                      folderOrder |-> merged.folderOrder,
                      sent |-> ProcessInsomniaRequest(rawReq, merged.environmentVariables),
                      success |-> InsomniaAxiosResolves(t),
                      transport |-> t]
    /\ walk' = Idle
    /\ UNCHANGED <<collections, inflight, uuid, started, inserted, subject, insomnia>>

NextInsomnia ==
    \/ \E requestId \in InsomniaRequestIds, environmentId \in EnvironmentIdArguments,
          override \in OverrideArguments :
           ExecuteInsomniaRequestBegin(requestId, environmentId, override)
    \/ AncestorChainStep
    \/ \E t \in TransportOutcomes : ExecuteInsomniaRequestSettle(t)

SpecInsomnia == InitInsomnia /\ [][NextInsomnia]_vars

----------------------------------------------------------------------------
(* SpecResources: the ReadResource handler of the server *)

\* Texts are sequences of characters.
Scheme == <<"i", "n", "s", "o", "m", "n", "i", "a", ":", "/", "/">>
CollectionsUri == Scheme \o <<"c", "o", "l", "l", "e", "c", "t", "i", "o", "n", "s">>
CollectionUri == Scheme \o <<"c", "o", "l", "l", "e", "c", "t", "i", "o", "n", "/", "{", "i", "d", "}">>
RequestsUri == Scheme \o <<"r", "e", "q", "u", "e", "s", "t", "s">>
RequestUri == Scheme \o <<"r", "e", "q", "u", "e", "s", "t", "/", "{", "i", "d", "}">>
RequestHistoryUri == Scheme \o <<"r", "e", "q", "u", "e", "s", "t", "/", "{", "i", "d", "}", "/", "h", "i", "s", "t", "o", "r", "y">>
EnvironmentsUri == Scheme \o <<"e", "n", "v", "i", "r", "o", "n", "m", "e", "n", "t", "s">>
SearchUri == Scheme \o <<"s", "e", "a", "r", "c", "h">>
StatsUri == Scheme \o <<"s", "t", "a", "t", "s">>
IdTemplate == <<"{", "i", "d", "}">>
HistorySuffix == <<"/", "h", "i", "s", "t", "o", "r", "y">>
CollectionPrefix == Scheme \o <<"c", "o", "l", "l", "e", "c", "t", "i", "o", "n", "/">>
RequestPrefix == Scheme \o <<"r", "e", "q", "u", "e", "s", "t", "/">>

\* The text of an id.
TextOfId(id) ==
    CASE id = "req_1" -> <<"r", "e", "q", "_", "1">>
      [] id = "req_2" -> <<"r", "e", "q", "_", "2">>
      [] id = "req_3" -> <<"r", "e", "q", "_", "3">>
      [] id = "req_9" -> <<"r", "e", "q", "_", "9">>
      [] id = "wrk_1" -> <<"w", "r", "k", "_", "1">>
      [] id = "wrk_2" -> <<"w", "r", "k", "_", "2">>
      [] id = "wrk_9" -> <<"w", "r", "k", "_", "9">>

\* String.prototype.startsWith.
TextStartsWith(text, prefix) ==
    Len(prefix) <= Len(text) /\ SubSeq(text, 1, Len(prefix)) = prefix

\* String.prototype.replace with a string pattern: the first occurrence
\* is replaced (the replacements used hold no "$").
StringReplace(text, pattern, replacement) ==
    LET at == {i \in 1..(Len(text) - Len(pattern) + 1) :
                   SubSeq(text, i, i + Len(pattern) - 1) = pattern}
    IN IF at = {} THEN text
       ELSE LET i == CHOOSE i \in at : \A j \in at : i <= j
            IN SubSeq(text, 1, i - 1) \o replacement
                   \o SubSeq(text, i + Len(pattern), Len(text))

\* createInsomniaResources: collection, request, environment and search
\* resources, in this order.
Resource(uri, name) == [uri |-> uri, name |-> name]
Resources ==
    << Resource(CollectionsUri, "Collections"),
       Resource(CollectionUri, "Collection Detail"),
       Resource(RequestsUri, "Requests"),
       Resource(RequestUri, "Request Detail"),
       Resource(RequestHistoryUri, "Request Execution History"),
       Resource(EnvironmentsUri, "Environments"),
       Resource(SearchUri, "Search"),
       Resource(StatsUri, "Stats") >>

\* The test of resources.find in the ReadResource handler.
ResourceMatches(r, uri) ==
    r.uri = uri \/ TextStartsWith(uri, StringReplace(r.uri, IdTemplate, <<>>))

\* resources.find(...): the index of the first resource matching, 0 if none.
FindResource(uri) ==
    FindIndex(Resources, {r \in Records(Resources) : ResourceMatches(r, uri)})

\* The loop over storage.getAllCollections() looking for the request whose
\* id reads as the text: found, with the request.
FindRequestByText(store, requestId) ==
    LET hits == {p \in UNION {{<<c, r>> : r \in 1..Len(store[c].requests)} :
                                  c \in 1..Len(store)} :
                     TextOfId(store[p[1]].requests[p[2]]._id) = requestId}
    IN IF hits = {} THEN [found |-> FALSE, history |-> <<>>]
       ELSE LET p == CHOOSE p \in hits :
                         \A q \in hits : p[1] < q[1] \/ (p[1] = q[1] /\ p[2] <= q[2])
            IN [found |-> TRUE, history |-> store[p[1]].requests[p[2]].history]

ResourceOutcome(uri, resource, kind, requestId, history) ==
    [tool |-> "read_resource", uri |-> uri, resource |-> resource, kind |-> kind,
     requestId |-> requestId, history |-> history]

\* resource.handler(request) of the resource of the given name: kind is
\* "contents" or "throw"; the request handlers extract the request id from
\* the uri and look it up, the history handler returns the stored history;
\* of the listings only the fact that contents are returned is kept.
ResourceHandler(store, name, uri) ==
    IF name = "Request Detail"
    THEN LET requestId == StringReplace(uri, RequestPrefix, <<>>)
             target == FindRequestByText(store, requestId)
         IN ResourceOutcome(uri, name, IF target.found THEN "contents" ELSE "throw",
                            requestId, <<>>)
    ELSE IF name = "Request Execution History"
    THEN LET requestId == StringReplace(StringReplace(uri, RequestPrefix, <<>>),
                                        HistorySuffix, <<>>)
             target == FindRequestByText(store, requestId)
         IN ResourceOutcome(uri, name, IF target.found THEN "contents" ELSE "throw",
                            requestId, target.history)
    ELSE IF name = "Collection Detail"
    THEN LET collectionId == StringReplace(uri, CollectionPrefix, <<>>) IN
         ResourceOutcome(uri, name,
                         IF \E c \in 1..Len(store) : TextOfId(store[c].id) = collectionId
                         THEN "contents" ELSE "throw",
                         <<>>, <<>>)
    ELSE ResourceOutcome(uri, name, "contents", <<>>, <<>>)

\* The uris read.
ResourceUris ==
    { CollectionsUri, RequestsUri, EnvironmentsUri, SearchUri, StatsUri,
      RequestsUri \o <<"?", "c", "o", "l", "l", "e", "c", "t", "i", "o", "n", "I", "d", "=", "w", "r", "k", "_", "1">>,
      Scheme \o <<"n", "o", "t", "h", "i", "n", "g">> }
    \cup {CollectionPrefix \o TextOfId(id) : id \in {"wrk_1", "wrk_2", "wrk_9"}}
    \cup {RequestPrefix \o TextOfId(id) : id \in {"req_1", "req_2", "req_3", "req_9"}}
    \cup {RequestPrefix \o TextOfId(id) \o HistorySuffix :
              id \in {"req_1", "req_2", "req_3", "req_9"}}

ResourceStoreLengths == {0, 1, 2, MAX_HISTORY_LENGTH - 1, MAX_HISTORY_LENGTH}

InitResources ==
    /\ \E k1 \in ResourceStoreLengths : \E has1 \in BOOLEAN :
          /\ (~has1 => k1 = 0)
          /\ collections = HistoryStore(k1, has1)
    /\ inflight = {}
    /\ outcome = NoOutcome
    /\ uuid = 0
    /\ started = 0
    /\ inserted = [r \in RequestIds |-> <<>>]
    /\ subject = NoSubject
    /\ insomnia = NoInsomnia
    /\ walk = Idle

\* The ReadResource handler: the first matching resource's handler runs;
\* no match throws.
ReadResource(uri) ==
    /\ LET r == FindResource(uri) IN
       outcome' = IF r = 0 THEN ResourceOutcome(uri, "", "throw", <<>>, <<>>)
                  ELSE ResourceHandler(collections, Resources[r].name, uri)
    /\ UNCHANGED <<collections, inflight, uuid, started, inserted, subject, insomnia, walk>>

NextResources == \E uri \in ResourceUris : ReadResource(uri)

SpecResources == InitResources /\ [][NextResources]_vars

----------------------------------------------------------------------------
(* The collections file.  PersistentStorage reads collections.json into a  *)
(* Map (JSON.parse, Object.entries) and writes a Map back through a plain  *)
(* object (collectionsData[id] = structure, JSON.stringify).  A Map, an    *)
(* object and the file are the sequences of their entries, an entry being  *)
(* the id with the four fields of its CollectionStructure.                 *)

\* A member that may be missing from its object: not an own property, an
\* own property holding undefined, or an own property holding a text.
AbsentMember == [own |-> FALSE, defined |-> FALSE, text |-> ""]
UndefinedMember == [own |-> TRUE, defined |-> FALSE, text |-> ""]
TextMember(text) == [own |-> TRUE, defined |-> TRUE, text |-> text]

Workspace(id) == [_id |-> id, _type |-> "workspace"]
RequestGroup(id, parentId) == [_id |-> id, _type |-> "request_group", parentId |-> parentId]
StoredRequest(id, parentId, body) ==
    [_id |-> id, _type |-> "request", parentId |-> parentId, body |-> body]
Environment(id, parentId) == [_id |-> id, _type |-> "environment", parentId |-> parentId]

CollectionStructure(workspace, folders, requests, environments) ==
    [workspace |-> workspace, folders |-> folders, requests |-> requests,
     environments |-> environments]

MapEntry(id, structure) ==
    [id |-> id, workspace |-> structure.workspace, folders |-> structure.folders,
     requests |-> structure.requests, environments |-> structure.environments]
StructureOf(entry) ==
    CollectionStructure(entry.workspace, entry.folders, entry.requests, entry.environments)

\* Property names that are array indices, with their numeric values: an
\* object enumerates these first, in ascending numeric order, then its
\* other string keys in the order they were created.
ArrayIndexValue == [key \in {"3", "7"} |-> IF key = "3" THEN 3 ELSE 7]
IsArrayIndex(key) == key \in DOMAIN ArrayIndexValue
\* The name of the accessor Object.prototype.__proto__.
ProtoKey == "__proto__"

\* CreateDataProperty, as JSON.parse does for each member of the text: the
\* property becomes an own property whatever its name.
ObjectDefine(obj, id, structure) ==
    LET entry == MapEntry(id, structure)
        i == IndexOfId(obj, id)
    IN IF i # 0 THEN [obj EXCEPT ![i] = entry]
       ELSE IF IsArrayIndex(id)
       THEN LET k == Cardinality({j \in 1..Len(obj) :
                                     /\ IsArrayIndex(obj[j].id)
                                     /\ ArrayIndexValue[obj[j].id] < ArrayIndexValue[id]})
            IN SubSeq(obj, 1, k) \o <<entry>> \o SubSeq(obj, k + 1, Len(obj))
       ELSE Append(obj, entry)

\* The assignment collectionsData[id] = structure on an object made by {}:
\* for the name __proto__ the inherited setter runs, making the structure
\* the object's prototype and creating no own property.
ObjectSet(obj, id, structure) ==
    IF id = ProtoKey THEN obj ELSE ObjectDefine(obj, id, structure)

\* JSON.stringify followed by JSON.parse on one structure: arrays keep
\* their order; a member holding undefined is left out of the text.
StringifiedMember(member) == IF member.defined THEN member ELSE AbsentMember
Stringified(structure) ==
    [structure EXCEPT !.requests =
        [i \in 1..Len(structure.requests) |->
            IF "body" \in DOMAIN structure.requests[i]
            THEN [structure.requests[i] EXCEPT !.body = StringifiedMember(@)]
            ELSE structure.requests[i]]]

RECURSIVE ObjectOfText(_, _, _)
ObjectOfText(text, k, obj) ==
    IF k > Len(text) THEN obj
    ELSE ObjectOfText(text, k + 1, ObjectDefine(obj, text[k].id, StructureOf(text[k])))

\* readCollectionsFromFile: the Map of the entries of the parsed file
\* (a missing file gives the empty Map).
readCollectionsFromFile(file) == ObjectOfText(file, 1, <<>>)

RECURSIVE ObjectOfMap(_, _, _)
ObjectOfMap(map, k, obj) ==
    IF k > Len(map) THEN obj
    ELSE ObjectOfMap(map, k + 1, ObjectSet(obj, map[k].id, StructureOf(map[k])))

\* writeCollectionsToFile: the file holds the own properties of
\* collectionsData in their enumeration order.
writeCollectionsToFile(map) ==
    LET collectionsData == ObjectOfMap(map, 1, <<>>)
    IN [i \in 1..Len(collectionsData) |->
           MapEntry(collectionsData[i].id, Stringified(StructureOf(collectionsData[i])))]

\* Map.prototype.set: an existing key keeps its place, a new one goes last.
MapSet(map, id, structure) ==
    LET i == IndexOfId(map, id)
    IN IF i # 0 THEN [map EXCEPT ![i] = MapEntry(id, structure)]
       ELSE Append(map, MapEntry(id, structure))

\* Map.prototype.get, undefined when the key is missing.
MapGet(map, id) ==
    LET i == IndexOfId(map, id)
    IN IF i # 0 THEN [found |-> TRUE, structure |-> StructureOf(map[i])]
       ELSE [found |-> FALSE,
             structure |-> CollectionStructure(Workspace(""), <<>>, <<>>, <<>>)]

getCollection(file, id) == MapGet(readCollectionsFromFile(file), id)

saveCollection(file, id, structure) ==
    writeCollectionsToFile(MapSet(readCollectionsFromFile(file), id, structure))

\* deleteCollection: the file is written only when the key was there.
deleteCollection(file, id) ==
    LET collections0 == readCollectionsFromFile(file)
        i == IndexOfId(collections0, id)
    IN IF i = 0 THEN [deleted |-> FALSE, file |-> file]
       ELSE [deleted |-> TRUE,
             file |-> writeCollectionsToFile(
                         SubSeq(collections0, 1, i - 1) \o
                         SubSeq(collections0, i + 1, Len(collections0)))]

----------------------------------------------------------------------------
(* SpecStore: saveCollection and deleteCollection called directly, with    *)
(* ids and structures drawn from small sets.                               *)

StoreIds == {"wrk_1", "wrk_2", "3", "7", ProtoKey}

\* Structures to save under an id: empty; two folders, two requests (one
\* with body: undefined) and two environments; the same in another order.
StoreStructures(id) ==
    LET f1 == RequestGroup("fld_1", id)
        f2 == RequestGroup("fld_2", "fld_1")
        r1 == StoredRequest("req_1", "fld_2", UndefinedMember)
        r2 == StoredRequest("req_2", id, TextMember("x"))
        e1 == Environment("env_1", id)
        e2 == Environment("env_2", id)
    IN { CollectionStructure(Workspace(id), <<>>, <<>>, <<>>),
         CollectionStructure(Workspace(id), <<f1, f2>>, <<r1, r2>>, <<e1, e2>>),
         CollectionStructure(Workspace(id), <<f2, f1>>, <<r2, r1>>, <<e2, e1>>) }

InitStore ==
    /\ collections = <<>>
    /\ inflight = {}
    /\ outcome = NoOutcome
    /\ uuid = 0
    /\ started = 0
    /\ inserted = [r \in RequestIds |-> <<>>]
    /\ subject = NoSubject
    /\ insomnia = NoInsomnia
    /\ walk = Idle

SaveCollection(id, structure) ==
    /\ collections' = saveCollection(collections, id, structure)
    /\ outcome' = [tool |-> "saveCollection", id |-> id, structure |-> structure,
                   before |-> collections]
    /\ UNCHANGED <<inflight, uuid, started, inserted, subject, insomnia, walk>>

DeleteCollection(id) ==
    /\ LET r == deleteCollection(collections, id)
       IN /\ collections' = r.file
          /\ outcome' = [tool |-> "deleteCollection", id |-> id, deleted |-> r.deleted,
                         before |-> collections]
    /\ UNCHANGED <<inflight, uuid, started, inserted, subject, insomnia, walk>>

NextStore ==
    \/ \E id \in StoreIds : \E structure \in StoreStructures(id) :
          SaveCollection(id, structure)
    \/ \E id \in StoreIds : DeleteCollection(id)

SpecStore == InitStore /\ [][NextStore]_vars

----------------------------------------------------------------------------
(* SpecCreate: create_collection, create_folder and                         *)
(* create_request_in_collection on a store that starts empty.  uuid counts  *)
(* the ids generated; the n-th id is the prefix followed by n.              *)

NewWorkspaceId(n) == "wrk_" \o ToString(n)
NewFolderId(n) == "fld_" \o ToString(n)
NewRequestId(n) == "req_" \o ToString(n)
\* a folder id a caller may pass that is in no store
UnknownFolderId == "fld_0"

\* An optional string argument of a call.
NoArgument == [given |-> FALSE, value |-> ""]
Argument(value) == [given |-> TRUE, value |-> value]

\* `argument || fallback`: undefined and the empty string are falsy.
OrElse(argument, fallback) ==
    IF argument.given /\ argument.value # "" THEN argument.value ELSE fallback

CreateOutcome(tool, kind, id) == [tool |-> tool, kind |-> kind, id |-> id]

\* create_collection: a workspace under a generated id with empty lists.
CreateCollection ==
    /\ uuid < MaxCreates
    /\ uuid' = uuid + 1
    /\ LET workspaceId == NewWorkspaceId(uuid + 1)
           collectionStructure == CollectionStructure(Workspace(workspaceId), <<>>, <<>>, <<>>)
       IN /\ collections' = saveCollection(collections, workspaceId, collectionStructure)
          /\ outcome' = CreateOutcome("create_collection", "result", workspaceId)
    /\ UNCHANGED <<inflight, started, inserted, subject, insomnia, walk>>

\* create_folder: throws when the collection is missing; otherwise pushes a
\* folder whose parentId is the argument, or the collection id without one.
CreateFolder(collectionId, parentId) ==
    /\ uuid < MaxCreates
    /\ LET collection == getCollection(collections, collectionId) IN
       IF ~collection.found
       THEN /\ outcome' = CreateOutcome("create_folder", "throw", "")
            /\ UNCHANGED <<collections, uuid>>
       ELSE LET folderId == NewFolderId(uuid + 1)
                folder == RequestGroup(folderId, OrElse(parentId, collectionId))
            IN /\ uuid' = uuid + 1
               /\ collections' =
                     saveCollection(collections, collectionId,
                         [collection.structure EXCEPT !.folders = Append(@, folder)])
               /\ outcome' = CreateOutcome("create_folder", "result", folderId)
    /\ UNCHANGED <<inflight, started, inserted, subject, insomnia, walk>>

\* create_request_in_collection: the same with folderId and the requests.
CreateRequestInCollection(collectionId, folderId, body) ==
    /\ uuid < MaxCreates
    /\ LET collection == getCollection(collections, collectionId) IN
       IF ~collection.found
       THEN /\ outcome' = CreateOutcome("create_request_in_collection", "throw", "")
            /\ UNCHANGED <<collections, uuid>>
       ELSE LET requestId == NewRequestId(uuid + 1)
                newRequest == StoredRequest(requestId, OrElse(folderId, collectionId), body)
            IN /\ uuid' = uuid + 1
               /\ collections' =
                     saveCollection(collections, collectionId,
                         [collection.structure EXCEPT !.requests = Append(@, newRequest)])
               /\ outcome' = CreateOutcome("create_request_in_collection", "result", requestId)
    /\ UNCHANGED <<inflight, started, inserted, subject, insomnia, walk>>

\* The ids stored anywhere, which a caller has seen in earlier results.
StoredCollectionIds == {collections[i].id : i \in 1..Len(collections)}
StoredFolderIds ==
    UNION {{collections[i].folders[j]._id : j \in 1..Len(collections[i].folders)} :
              i \in 1..Len(collections)}

\* The collectionId and the parentId / folderId arguments drawn.
CollectionArguments == StoredCollectionIds \cup {UnknownCollectionId}
ParentArguments ==
    {NoArgument, Argument(""), Argument(UnknownFolderId)} \cup
    {Argument(id) : id \in StoredFolderIds \cup StoredCollectionIds}

NextCreate ==
    \/ CreateCollection
    \/ \E c \in CollectionArguments : \E p \in ParentArguments : CreateFolder(c, p)
    \/ \E c \in CollectionArguments : \E p \in ParentArguments :
          \E body \in {UndefinedMember, TextMember("x")} :
             CreateRequestInCollection(c, p, body)

SpecCreate == InitStore /\ [][NextCreate]_vars

----------------------------------------------------------------------------
(* SpecEdit: update_request and delete_request beside execute_request, on  *)
(* a store with folders and environments.  started counts the invocations  *)
(* begun, of the three tools together.                                     *)

EditStore ==
    << MapEntry("wrk_1",
          CollectionStructure(Workspace("wrk_1"),
              <<RequestGroup("fld_1", "wrk_1")>>,
              <<NewRequest("req_1", "fld_1", TemplatedContent),
                NewRequest("req_2", "wrk_1", PlainContent)>>,
              <<Environment("env_1", "wrk_1")>>)),
       MapEntry("wrk_2",
          CollectionStructure(Workspace("wrk_2"), <<>>,
              <<[NewRequest("req_3", "wrk_2", PlainContent) EXCEPT
                    !.hasHistory = TRUE,
                    !.history = OldHistory("req_3", MAX_HISTORY_LENGTH)]>>,
              <<>>)) >>

InitEdit ==
    /\ collections = EditStore
    /\ inflight = {}
    /\ outcome = NoOutcome
    /\ uuid = 0
    /\ started = 0
    /\ inserted = [r \in RequestIds |-> HistoryOf(collections, r)]
    /\ subject = NoSubject
    /\ insomnia = NoInsomnia
    /\ walk = Idle

\* The arguments of update_request beside requestId: for each field whether
\* it is supplied (params.x !== undefined) and its new value.
UpdateRequestParams(hasUrl, url, hasHeaders, headers, hasBody, body, hasAuth, auth) ==
    [hasUrl |-> hasUrl, url |-> url, hasHeaders |-> hasHeaders, headers |-> headers,
     hasBody |-> hasBody, body |-> body,
     hasAuthentication |-> hasAuth, authentication |-> auth]

UpdateArguments ==
    { UpdateRequestParams(FALSE, <<>>, FALSE, <<>>, FALSE, NoBody, FALSE, NoAuth),
      UpdateRequestParams(TRUE, <<"y">>, FALSE, <<>>, FALSE, NoBody, FALSE, NoAuth),
      UpdateRequestParams(FALSE, <<>>, TRUE, <<Header("Accept", <<"y">>, FALSE)>>,
                          TRUE, Body("text/plain", <<"y">>), TRUE, BearerAuth(<<"y">>)) }

\* the value Date.now() gives, later than the creation of the stored requests
Timestamps == {1}

\* The assignments `if (params.x !== undefined) targetRequest.x = params.x`
\* and targetRequest.modified = Date.now().
ApplyUpdateTouchingCreated(targetRequest, params, now) ==
    [targetRequest EXCEPT !.created = now, !.modified = now]
ApplyUpdate(targetRequest, params, now) ==
    [targetRequest EXCEPT
        !.content.url = IF params.hasUrl THEN params.url ELSE @,
        !.content.headers = IF params.hasHeaders THEN params.headers ELSE @,
        !.content.hasBody = IF params.hasBody THEN TRUE ELSE @,
        !.content.body = IF params.hasBody THEN params.body ELSE @,
        !.content.hasAuth = IF params.hasAuthentication THEN TRUE ELSE @,
        !.content.authentication =
            IF params.hasAuthentication THEN params.authentication ELSE @,
        !.modified = now]

NothingSupplied ==
    UpdateRequestParams(FALSE, <<>>, FALSE, <<>>, FALSE, NoBody, FALSE, NoAuth)

EditOutcome(tool, requestId, params, kind, message) ==
    [tool |-> tool, call |-> started + 1, requestId |-> requestId, params |-> params,
     kind |-> kind, message |-> message]

\* update_request: find the request in the collections read from the file,
\* throw when there is none, assign, save the collection it is in.
UpdateRequest(requestId, params, now) ==
    /\ started < MaxExec
    /\ started' = started + 1
    /\ LET collections0 == readCollectionsFromFile(collections)
           l == LookupRequest(collections0, requestId)
       IN IF ~l.found
          THEN /\ outcome' = EditOutcome("update_request", requestId, params, "throw",
                                         "Request not found")
               /\ UNCHANGED collections
          ELSE LET updated ==
                      [collections0 EXCEPT ![l.ci].requests[l.ri] =
                          ApplyUpdate(@, params, now)]
               IN /\ collections' =
                        saveCollection(collections, l.collectionId,
                                       StructureOf(updated[l.ci]))
                  /\ outcome' = EditOutcome("update_request", requestId, params, "result", "")
    /\ UNCHANGED <<inflight, uuid, inserted, subject, insomnia, walk>>

\* Array.prototype.splice(requestIndex, 1)
SpliceOne(requests, requestIndex) ==
    SubSeq(requests, 1, requestIndex - 1) \o
    SubSeq(requests, requestIndex + 1, Len(requests))

\* delete_request: splice the request out of the first collection holding
\* it and save that collection; throw when no collection holds it.
DeleteRequest(requestId) ==
    /\ started < MaxExec
    /\ started' = started + 1
    /\ LET collections0 == readCollectionsFromFile(collections)
           l == LookupRequest(collections0, requestId)
       IN IF ~l.found
          THEN /\ outcome' = EditOutcome("delete_request", requestId, NothingSupplied, "throw",
                                         "Request not found")
               /\ UNCHANGED collections
          ELSE LET collection ==
                      [collections0[l.ci] EXCEPT !.requests = SpliceOne(@, l.ri)]
               IN /\ collections' =
                        saveCollection(collections, l.collectionId,
                                       StructureOf(collection))
                  /\ outcome' = EditOutcome("delete_request", requestId, NothingSupplied, "result", "")
    /\ UNCHANGED <<inflight, uuid, inserted, subject, insomnia, walk>>

\* the transport outcomes drawn: a 200, a 500 and a refused connection
EditTransportOutcomes ==
    {t \in TransportOutcomes : t.status \in {200, 500} \/ t.message = "connect ECONNREFUSED"}

NextEdit ==
    \/ \E r \in RequestIds \cup {UnknownRequestId} : ExecuteRequestBegin(r, <<>>)
    \/ \E call \in inflight : \E t \in EditTransportOutcomes : ExecuteRequestSettle(call, t)
    \/ \E r \in RequestIds \cup {UnknownRequestId} : \E params \in UpdateArguments :
          \E now \in Timestamps : UpdateRequest(r, params, now)
    \/ \E r \in RequestIds \cup {UnknownRequestId} : DeleteRequest(r)

SpecEdit == InitEdit /\ [][NextEdit]_vars

----------------------------------------------------------------------------
(* SpecHeaders: the two normalizeHeaders functions applied to the headers  *)
(* of a response.  A headers object is the sequence of its [key, value]    *)
(* members; a value is a string, a list of strings, a number or null.      *)

StringHeader(s) == [t |-> "string", s |-> s, items |-> <<>>, n |-> 0]
ListHeader(items) == [t |-> "array", s |-> <<>>, items |-> items, n |-> 0]
NumberHeader(n) == [t |-> "number", s |-> <<>>, items |-> <<>>, n |-> n]
NullHeader == [t |-> "null", s |-> <<>>, items |-> <<>>, n |-> 0]

\* Array.prototype.join(separator) on a list of strings.
RECURSIVE Join(_, _)
Join(items, separator) ==
    IF items = <<>> THEN <<>>
    ELSE IF Len(items) = 1 THEN items[1]
    ELSE items[1] \o separator \o Join(Tail(items), separator)

\* String(value) on a header value: a list gives Array.prototype.toString,
\* its items joined by ","; null gives "null".
StringOfHeader(value) ==
    CASE value.t = "string" -> value.s
      [] value.t = "array" -> Join(value.items, <<",">>)
      [] value.t = "number" -> Digits(value.n)
      [] OTHER -> <<"n", "u", "l", "l">>

\* normalizeHeaders of utils/http, which execute_request calls: every value
\* that is not null or undefined becomes String(value).
normalizeHeaders(headers) ==
    LET kept == SelectSeq(headers, LAMBDA h : h.value.t # "null")
    IN [i \in 1..Len(kept) |-> [key |-> kept[i].key, value |-> StringOfHeader(kept[i].value)]]

\* normalizeHeaders of tools/insomnia.tools, which execute_insomnia_request
\* calls: a string is kept, a list is joined by ", ", anything else is left
\* out.
InsomniaNormalizeHeaders(headers) ==
    LET kept == SelectSeq(headers, LAMBDA h : h.value.t \in {"string", "array"})
    IN [i \in 1..Len(kept) |->
           [key |-> kept[i].key,
            value |-> IF kept[i].value.t = "string" THEN kept[i].value.s
                      ELSE Join(kept[i].value.items, <<",", " ">>)]]

ResponseHeaderValues ==
    { StringHeader(<<"a">>), ListHeader(<<>>), ListHeader(<< <<"a">> >>),
      ListHeader(<< <<"a">>, <<"b">> >>), NumberHeader(7), NullHeader }

ResponseHeaders ==
    { <<>> } \cup
    { <<[key |-> "set-cookie", value |-> v]>> : v \in ResponseHeaderValues } \cup
    { <<[key |-> "set-cookie", value |-> v], [key |-> "vary", value |-> w]>> :
         v \in ResponseHeaderValues, w \in ResponseHeaderValues }

InitHeaders ==
    /\ \E headers \in ResponseHeaders : subject = [headers |-> headers]
    /\ collections = <<>>
    /\ inflight = {}
    /\ outcome = NoOutcome
    /\ uuid = 0
    /\ started = 0
    /\ inserted = [r \in RequestIds |-> <<>>]
    /\ insomnia = NoInsomnia
    /\ walk = Idle

\* execute_request on transport success: the headers of the result and of
\* the execution record.
ExecuteRequestHeaders ==
    /\ outcome' = [tool |-> "execute_request",
                   result |-> normalizeHeaders(subject.headers),
                   execution |-> normalizeHeaders(subject.headers)]
    /\ UNCHANGED <<collections, inflight, uuid, started, inserted, subject, insomnia, walk>>

\* execute_insomnia_request on transport success: the headers of the result
\* (it records no history).
ExecuteInsomniaRequestHeaders ==
    /\ outcome' = [tool |-> "execute_insomnia_request",
                   result |-> InsomniaNormalizeHeaders(subject.headers)]
    /\ UNCHANGED <<collections, inflight, uuid, started, inserted, subject, insomnia, walk>>

NextHeaders == ExecuteRequestHeaders \/ ExecuteInsomniaRequestHeaders

SpecHeaders == InitHeaders /\ [][NextHeaders]_vars

----------------------------------------------------------------------------
(* SpecCollect: InsomniaStorage.getCollection on an Insomnia data          *)
(* directory.  The while loop runs one pass over all folders per step;     *)
(* walk holds its two sets and counts the passes.                          *)

\* The test of the loops' if: the folder's parent is already collected (or
\* is the workspace) and the folder itself is not.
FolderJoinsWhateverParent(folder, processedIds, workspaceFolderIds) ==
    folder._id \notin workspaceFolderIds
FolderJoins(folder, processedIds, workspaceFolderIds) ==
    folder.parentId \in processedIds /\ folder._id \notin workspaceFolderIds

\* One `for (const folder of allFolders)` of the while loop, from folder k
\* on: the sets grow as the folders are visited.
RECURSIVE CollectPass(_, _, _)
CollectPass(allFolders, k, sets) ==
    IF k > Len(allFolders) THEN sets
    ELSE CollectPass(allFolders, k + 1,
            IF FolderJoins(allFolders[k], sets.processedIds, sets.workspaceFolderIds)
            THEN [workspaceFolderIds |-> sets.workspaceFolderIds \cup {allFolders[k]._id},
                  processedIds |-> sets.processedIds \cup {allFolders[k]._id},
                  foundNew |-> TRUE]
            ELSE sets)

InitCollect ==
    /\ collections = <<>>
    /\ inflight = {}
    /\ outcome = NoOutcome
    /\ uuid = 0
    /\ started = 0
    /\ inserted = [r \in RequestIds |-> <<>>]
    /\ subject = NoSubject
    /\ walk = Idle
    /\ \E requestParent \in ParentIds, parents \in [FolderIds -> ParentIds] :
          insomnia = InsomniaStore(requestParent, parents, "defined", "defined", "defined",
                                   AllDefined)

\* getCollection up to the while loop: null when there is no such
\* workspace, else the folders directly in the workspace are collected.
GetCollectionBegin(workspaceId) ==
    /\ walk.pc = "idle"
    /\ IF \E w \in Records(insomnia.workspaces) : w._id = workspaceId
       THEN LET direct == {f \in Records(insomnia.requestGroups) : f.parentId = workspaceId}
            IN /\ walk' = [pc |-> "collecting", workspaceId |-> workspaceId,
                           workspaceFolderIds |-> {f._id : f \in direct},
                           processedIds |-> {workspaceId} \cup {f._id : f \in direct},
                           foundNew |-> TRUE, passes |-> 0]
               /\ outcome' = NoOutcome
       ELSE /\ walk' = walk
            /\ outcome' = [tool |-> "getCollection", found |-> FALSE,
                           workspaceId |-> workspaceId]
    /\ UNCHANGED <<collections, inflight, uuid, started, inserted, subject, insomnia>>

\* The ids of the records of a list that pass a test, in list order.
IdsOf(records) == [i \in 1..Len(records) |-> records[i]._id]

\* The while condition is tested: one more pass while foundNew, else the
\* three filters and the return.
GetCollectionStep ==
    /\ walk.pc = "collecting"
    /\ IF walk.foundNew
       THEN LET sets == CollectPass(insomnia.requestGroups, 1,
                            [workspaceFolderIds |-> walk.workspaceFolderIds,
                             processedIds |-> walk.processedIds,
                             foundNew |-> FALSE])
            IN /\ walk' = [walk EXCEPT !.workspaceFolderIds = sets.workspaceFolderIds,
                                       !.processedIds = sets.processedIds,
                                       !.foundNew = sets.foundNew,
                                       !.passes = @ + 1]
               /\ UNCHANGED outcome
       ELSE /\ walk' = Idle
            /\ outcome' =
                  [tool |-> "getCollection", found |-> TRUE,
                   workspaceId |-> walk.workspaceId, passes |-> walk.passes,
                   requests |-> IdsOf(SelectSeq(insomnia.requests,
                       LAMBDA r : r.parentId = walk.workspaceId
                                  \/ r.parentId \in walk.workspaceFolderIds)),
                   folders |-> IdsOf(SelectSeq(insomnia.requestGroups,
                       LAMBDA f : f._id \in walk.workspaceFolderIds)),
                   environments |-> IdsOf(SelectSeq(insomnia.environments,
                       LAMBDA e : e.parentId = walk.workspaceId))]
    /\ UNCHANGED <<collections, inflight, uuid, started, inserted, subject, insomnia>>

NextCollect ==
    \/ \E w \in {"wrk_1", "wrk_g", "wrk_9"} : GetCollectionBegin(w)
    \/ GetCollectionStep

SpecCollect == InitCollect /\ [][NextCollect]_vars

----------------------------------------------------------------------------
(* SpecRoundTrip: export_collection and import_from_insomnia_export on a   *)
(* store whose first collection holds a tree of three folders.  subject    *)
(* holds the export file once one is written, and the collection it was    *)
(* made from.                                                              *)

\* Stores the creating tools make: each folder is in the workspace or in a
\* folder created before it, each request in the workspace or any folder.
RoundTripStores ==
    { saveCollection(
         saveCollection(<<>>, "wrk_1",
            CollectionStructure(Workspace("wrk_1"),
               <<RequestGroup("fld_1", "wrk_1"), RequestGroup("fld_2", p2),
                 RequestGroup("fld_3", p3)>>,
               <<StoredRequest("req_1", q1, TextMember("x")),
                 StoredRequest("req_2", q2, AbsentMember)>>,
               environments)),
         "wrk_2",
         CollectionStructure(Workspace("wrk_2"), <<>>,
            <<StoredRequest("req_3", "wrk_2", AbsentMember)>>, <<>>)) :
      p2 \in {"wrk_1", "fld_1"}, p3 \in {"wrk_1", "fld_1", "fld_2"},
      q1 \in {"wrk_1", "fld_1", "fld_2", "fld_3"}, q2 \in {"wrk_1", "fld_3"},
      environments \in {<<>>, <<Environment("env_1", "wrk_1")>>} }

InitRoundTrip ==
    /\ collections \in RoundTripStores
    /\ inflight = {}
    /\ outcome = NoOutcome
    /\ uuid = 0
    /\ started = 0
    /\ inserted = [r \in RequestIds |-> <<>>]
    /\ subject = NoSubject
    /\ insomnia = NoInsomnia
    /\ walk = Idle

\* Whether an export file has been written at the path.
FileExists == "resources" \in DOMAIN subject

\* export_collection: the resources are the workspace, the folders, the
\* requests and the environments of the collection, in this order; the
\* text goes to the file when a filePath is given, else into the result.
ExportCollection(collectionId, hasFilePath) ==
    /\ LET collection == getCollection(collections, collectionId) IN
       IF ~collection.found
       THEN /\ outcome' = [tool |-> "export_collection", kind |-> "throw"]
            /\ UNCHANGED subject
       ELSE LET structure == Stringified(collection.structure)
                resources == <<structure.workspace>> \o structure.folders \o
                             structure.requests \o structure.environments
            IN /\ outcome' = [tool |-> "export_collection", kind |-> "result",
                              inFile |-> hasFilePath, resources |-> resources]
               /\ subject' = IF hasFilePath
                             THEN [resources |-> resources,
                                   collection |-> collection.structure]
                             ELSE subject
    /\ UNCHANGED <<collections, inflight, uuid, started, inserted, insomnia, walk>>

\* r.parentId, with undefined and the empty string both falsy.
ParentIdOf(r) == IF "parentId" \in DOMAIN r THEN r.parentId ELSE ""

\* The structure import_from_insomnia_export builds for one workspace of
\* the file: allChildrenIds holds the workspace and the folders directly in
\* it, and a resource is taken when its parent is among them.
ImportedStructure(allResources, workspace) ==
    LET resourcesInWorkspace ==
            SelectSeq(allResources, LAMBDA r : ParentIdOf(r) = workspace._id)
        folderIds == {r._id : r \in {x \in Records(resourcesInWorkspace) :
                                        x._type = "request_group"}}
        allChildrenIds == {workspace._id} \cup folderIds
        taken == SelectSeq(allResources,
                     LAMBDA r : ParentIdOf(r) # "" /\ ParentIdOf(r) \in allChildrenIds)
    IN CollectionStructure(workspace,
          SelectSeq(taken, LAMBDA r : r._type = "request_group"),
          SelectSeq(taken, LAMBDA r : r._type = "request"),
          SelectSeq(taken, LAMBDA r : r._type = "environment"
                                      /\ r.parentId = workspace._id))

\* The loop over the workspaces of the file, from workspace k on.
RECURSIVE ImportWorkspaces(_, _, _, _)
ImportWorkspaces(file, allResources, workspaces, k) ==
    IF k > Len(workspaces) THEN file
    ELSE ImportWorkspaces(
            saveCollection(file, workspaces[k]._id,
                           ImportedStructure(allResources, workspaces[k])),
            allResources, workspaces, k + 1)

ImportFromInsomniaExport ==
    /\ IF ~FileExists
       THEN /\ outcome' = [tool |-> "import_from_insomnia_export", kind |-> "throw"]
            /\ UNCHANGED collections
       ELSE LET allResources == subject.resources
                workspaces == SelectSeq(allResources, LAMBDA r : r._type = "workspace")
            IN IF Len(workspaces) = 0
               THEN /\ outcome' = [tool |-> "import_from_insomnia_export",
                                   kind |-> "throw"]
                    /\ UNCHANGED collections
               ELSE /\ collections' = ImportWorkspaces(collections, allResources,
                                                       workspaces, 1)
                    /\ outcome' = [tool |-> "import_from_insomnia_export",
                                   kind |-> "result", importedCount |-> Len(workspaces)]
    /\ UNCHANGED <<inflight, uuid, started, inserted, subject, insomnia, walk>>

NextRoundTrip ==
    \/ \E c \in {"wrk_1", "wrk_2", UnknownCollectionId} : \E hasFilePath \in BOOLEAN :
          ExportCollection(c, hasFilePath)
    \/ ImportFromInsomniaExport

SpecRoundTrip == InitRoundTrip /\ [][NextRoundTrip]_vars

----------------------------------------------------------------------------
(* SpecEnvironment: set_environment_variable on a store of two             *)
(* collections, the second of which has an environment already.            *)

\* An environment with its data object, a function from the keys set so
\* far to their values.
EnvironmentWithData(id, parentId, data) ==
    [_id |-> id, _type |-> "environment", parentId |-> parentId, data |-> data]
NoData == [k \in {} |-> ""]
\* The environments created in one behaviour.
MaxEnvironments == 3
NewEnvironmentId(n) == "env_" \o ToString(n)
ExistingEnvironmentId == "env_a"
UnknownEnvironmentId == "env_z"

InitEnvironment ==
    /\ collections =
          saveCollection(
             saveCollection(<<>>, "wrk_1",
                CollectionStructure(Workspace("wrk_1"), <<>>, <<>>, <<>>)),
             "wrk_2",
             CollectionStructure(Workspace("wrk_2"), <<>>, <<>>,
                <<EnvironmentWithData(ExistingEnvironmentId, "wrk_2", NoData)>>))
    /\ inflight = {}
    /\ outcome = NoOutcome
    /\ uuid = 0
    /\ started = 0
    /\ inserted = [r \in RequestIds |-> <<>>]
    /\ subject = NoSubject
    /\ insomnia = NoInsomnia
    /\ walk = Idle

\* environment.data[key] = value
DataSet(data, key, value) ==
    [k \in DOMAIN data \cup {key} |-> IF k = key THEN value ELSE data[k]]

\* collection.environments.find(env => env._id === params.environmentId):
\* the index of the first match, 0 when there is none; an omitted
\* environmentId is undefined and equals no _id.
FindEnvironment(environments, environmentId) ==
    IF ~environmentId.given THEN 0
    ELSE IF \E i \in 1..Len(environments) : environments[i]._id = environmentId.value
    THEN CHOOSE i \in 1..Len(environments) :
            /\ environments[i]._id = environmentId.value
            /\ \A j \in 1..(i - 1) : environments[j]._id # environmentId.value
    ELSE 0

SetEnvironmentVariable(collectionId, environmentId, key, value) ==
    /\ uuid < MaxEnvironments
    /\ LET collection == getCollection(collections, collectionId)
           args == [tool |-> "set_environment_variable", collectionId |-> collectionId,
                    environmentId |-> environmentId, key |-> key, value |-> value]
       IN IF ~collection.found
          THEN /\ outcome' = [kind |-> "throw"] @@ args
               /\ UNCHANGED <<collections, uuid>>
          ELSE LET environments == collection.structure.environments
                   found == FindEnvironment(environments, environmentId)
                   pushed == IF found # 0 THEN environments
                             ELSE Append(environments,
                                     EnvironmentWithData(NewEnvironmentId(uuid + 1),
                                                         collectionId, NoData))
                   i == IF found # 0 THEN found ELSE Len(pushed)
               IN /\ uuid' = IF found # 0 THEN uuid ELSE uuid + 1
                  /\ collections' =
                        saveCollection(collections, collectionId,
                           [collection.structure EXCEPT !.environments =
                               [pushed EXCEPT ![i].data = DataSet(@, key, value)]])
                  /\ outcome' = [kind |-> "result"] @@ args
    /\ UNCHANGED <<inflight, started, inserted, subject, insomnia, walk>>

\* The key and value pairs a caller sets.
VariablePairs == {<<"k1", "v1">>, <<"k2", "v2">>, <<"k1", "v3">>}

NextEnvironment ==
    \E c \in {"wrk_1", "wrk_2", UnknownCollectionId} :
    \E e \in {NoArgument, Argument(ExistingEnvironmentId), Argument(UnknownEnvironmentId)} :
    \E pair \in VariablePairs :
       SetEnvironmentVariable(c, e, pair[1], pair[2])

SpecEnvironment == InitEnvironment /\ [][NextEnvironment]_vars

----------------------------------------------------------------------------
(* Claims about the history recorder, checked under SpecHistory *)

Min(a, b) == IF a < b THEN a ELSE b

\* C2: every request's history has at most MAX_HISTORY_LENGTH entries, and
\* its first entry is the record passed to the most recent addExecution
\* call that returned true for that request.
C2_BoundedHistoryNewestFirst ==
    /\ \A r \in RequestIds :
          LET h == HistoryOf(collections, r) IN
          /\ Len(h) <= MAX_HISTORY_LENGTH
          /\ inserted[r] # <<>> => (h # <<>> /\ h[1] = inserted[r][1])
    /\ (outcome.tool = "addExecution" /\ outcome.ok) =>
          LET h == HistoryOf(collections, outcome.requestId) IN
          h # <<>> /\ h[1] = outcome.execution

\* a request that started full has been recorded to again, successfully
C2_Witness ==
    /\ outcome.tool = "addExecution" /\ outcome.ok
    /\ outcome.requestId = "req_3"
    /\ Len(inserted["req_3"]) > MAX_HISTORY_LENGTH + 1
    /\ Len(HistoryOf(collections, "req_3")) = MAX_HISTORY_LENGTH

\* C3: a history is exactly the min(n, MAX_HISTORY_LENGTH) most recently
\* recorded executions, newest first, so a record leaves only when
\* MAX_HISTORY_LENGTH newer ones are present (oldest-first eviction).
C3_MostRecentFirstOldestEvicted ==
    \A r \in RequestIds :
        LET h == HistoryOf(collections, r)
            n == Len(inserted[r])
        IN /\ h = SubSeq(inserted[r], 1, Min(n, MAX_HISTORY_LENGTH))
           /\ \A i, j \in 1..Len(h) : i < j => h[i]._id > h[j]._id

\* req_1 started with no history; its 21st insertion has evicted the record
\* inserted first (_id 1) and kept the 20 newer ones
C3_Witness ==
    /\ Len(inserted["req_1"]) = MAX_HISTORY_LENGTH + 1
    /\ inserted["req_1"][MAX_HISTORY_LENGTH + 1]._id = 1
    /\ LET h == HistoryOf(collections, "req_1") IN
       /\ Len(h) = MAX_HISTORY_LENGTH
       /\ \A i \in 1..Len(h) : h[i]._id # 1
       /\ h[MAX_HISTORY_LENGTH]._id = 2

\* Whether the collection stored under collectionId holds the request.
HoldsRequest(store, collectionId, requestId) ==
    \E ci \in 1..Len(store) :
       /\ store[ci].id = collectionId
       /\ \E ri \in 1..Len(store[ci].requests) : store[ci].requests[ri]._id = requestId

\* C26: addExecution returns true exactly when the collection id is in the
\* store and that collection has the request; then the record is the first
\* of the request's history; otherwise it returns false and the stored
\* collections are those before the call.
C26_AddExecutionFalseWritesNothing ==
    [][outcome'.tool = "addExecution" =>
          LET present == HoldsRequest(collections, outcome'.collectionId, outcome'.requestId)
          IN /\ outcome'.ok <=> present
             /\ ~outcome'.ok => collections' = collections
             /\ outcome'.ok =>
                   LET ci == IndexOfId(collections', outcome'.collectionId)
                       ri == IndexOfRequest(collections'[ci].requests, outcome'.requestId)
                   IN /\ collections'[ci].requests[ri].hasHistory
                      /\ collections'[ci].requests[ri].history[1] = outcome'.execution]_vars

\* a call naming a collection that does not hold the request (another one
\* does), after a record was stored
C26_Witness ==
    /\ outcome.tool = "addExecution"
    /\ ~outcome.ok
    /\ outcome.collectionId = "wrk_1"
    /\ outcome.requestId = "req_3"
    /\ uuid > 0

----------------------------------------------------------------------------
(* Claims about execute_request, checked under Spec *)

\* C4: when execute_request runs on an existing request and the transport
\* fails with no HTTP response, the outcome returned has error set with the
\* failure message, and the request's history gains exactly one entry, at
\* index 0, with the error field populated and statusCode 0.
C4_TransportFailureRecorded ==
    [][\A call \in inflight :
          (call \notin inflight' /\ ~outcome'.transport.hasResponse) =>
             LET before == HistoryOf(collections, call.requestId)
                 after == HistoryOf(collections', call.requestId)
             IN /\ outcome'.kind = "errorResult"
                /\ outcome'.error
                /\ outcome'.message = outcome'.transport.message
                /\ Len(after) = Min(Len(before) + 1, MAX_HISTORY_LENGTH)
                /\ Tail(after) = SubSeq(before, 1, Len(after) - 1)
                /\ after[1].hasError
                /\ after[1].statusCode = 0
                /\ after[1].parentId = call.requestId]_vars

\* C5: a response with any status code, 4xx and 5xx included, gives a
\* non-error outcome and a history record without an error field; only a
\* failure with no response gives an error outcome.
C5_EveryStatusIsSuccess ==
    (outcome.tool = "execute_request" /\ outcome.existing
        /\ outcome.transport.hasResponse) =>
       /\ outcome.kind = "result"
       /\ ~outcome.error
       /\ LET h == HistoryOf(collections, outcome.requestId) IN
          /\ h # <<>>
          /\ ~h[1].hasError
          /\ h[1].statusCode = outcome.transport.status

\* C6: executing an existing request never throws: whatever the transport
\* does, the handler returns a success or an error outcome.
C6_ExecuteNeverThrows ==
    (outcome.tool = "execute_request" /\ outcome.existing) =>
        outcome.kind \in {"result", "errorResult"}

----------------------------------------------------------------------------
(* Claims about the outbound request, checked under SpecSubst *)

\* The substitution the specification describes: one left-to-right pass
\* over the original text in which each literal occurrence of {{k}}, k a
\* key of the map, becomes String(value of k) as it stands; everything
\* else, placeholders of absent keys included, is copied.
RECURSIVE RenderedFrom(_, _, _)
RenderedFrom(text, i, entries) ==
    LET at(k) == /\ i + Len(entries[k].key) + 3 <= Len(text)
                 /\ SubSeq(text, i, i + Len(entries[k].key) + 3) = Placeholder(entries[k].key)
        hits == {k \in 1..Len(entries) : at(k)}
    IN IF i > Len(text) THEN <<>>
       ELSE IF hits = {} THEN <<text[i]>> \o RenderedFrom(text, i + 1, entries)
       ELSE LET k == CHOOSE k \in hits : \A m \in hits : k <= m
            IN String(entries[k].value)
                  \o RenderedFrom(text, i + Len(entries[k].key) + 4, entries)

Rendered(text, entries) == RenderedFrom(text, 1, entries)

Contains(text, part) ==
    \E i \in 1..(Len(text) - Len(part) + 1) : SubSeq(text, i, i + Len(part) - 1) = part

Reverse(s) == [i \in 1..Len(s) |-> s[Len(s) + 1 - i]]

Outbound == outcome.tool = "outbound"

\* C7: executing a request with a bearer descriptor sends Authorization:
\* Bearer <token>, the token with every {{key}} replaced from the variable
\* map, and with a basic descriptor Authorization: Basic
\* base64(username:password), on both execution paths.
C7_AuthorizationHeader ==
    (Outbound /\ subject.request.hasAuth) =>
        LET auth == subject.request.authentication
            headers == outcome.sent.headers
        IN /\ auth.type = "bearer" =>
                 /\ "Authorization" \in DOMAIN headers
                 /\ headers["Authorization"] = Bearer \o Rendered(auth.token, subject.variables)
           /\ auth.type = "basic" =>
                 /\ "Authorization" \in DOMAIN headers
                 /\ headers["Authorization"] =
                       Basic \o Base64OfString(auth.username \o <<":">> \o auth.password)

\* C8: substitution is not recursive and does not depend on key order: a
\* value inserted for key i that contains {{j}}, j another key of the map,
\* leaves that literal {{j}} in the output, and the keys taken in another
\* iteration order give the same output.
C8_NotRecursiveOrderIndependent ==
    Outbound =>
        LET text == subject.request.url
            entries == subject.variables
            out == outcome.sent.url
        IN /\ out = Substitute(text, Reverse(entries))
           /\ \A i, j \in 1..Len(entries) :
                 ( /\ i # j
                   /\ Contains(text, Placeholder(entries[i].key))
                   /\ Contains(String(entries[i].value), Placeholder(entries[j].key)) )
                 => Contains(out, Placeholder(entries[j].key))

\* The value of the last header named n that is not disabled.
LastEnabledValue(headers, n) ==
    LET idx == {i \in 1..Len(headers) : headers[i].name = n /\ ~headers[i].disabled}
    IN headers[CHOOSE i \in idx : \A m \in idx : m <= i].value

\* C9: every {{k}} with k in the variable map is replaced by String(value
\* of k) in the URL, in each enabled header value and in the body text;
\* a {{j}} with j absent from the map stays verbatim; with an empty map the
\* text is unchanged.
C9_SubstitutionTotal ==
    Outbound =>
        LET request == subject.request
            entries == subject.variables
            sent == outcome.sent
        IN /\ sent.url = Rendered(request.url, entries)
           /\ \A n \in (DOMAIN sent.headers) \ {"Authorization"} :
                 sent.headers[n] = Rendered(LastEnabledValue(request.headers, n), entries)
           /\ sent.body.hasBody => sent.body.text = Rendered(request.body.text, entries)
           /\ entries = <<>> => sent.url = request.url

\* Whether the authentication switch of the path taken sets Authorization.
AuthenticationApplied ==
    /\ outcome.path = "execute_request"
    /\ subject.request.hasAuth
    /\ subject.request.authentication.type \in {"bearer", "basic"}

\* C15: the names of the headers sent, the Authorization header set by the
\* authentication switch apart, are exactly the names of the headers that
\* are not disabled, and each carries the substituted value of the last
\* such header of its name: a disabled header adds neither name nor value.
C15_DisabledHeadersExcluded ==
    Outbound =>
        LET headers == subject.request.headers
            enabled == {headers[i].name : i \in {j \in 1..Len(headers) : ~headers[j].disabled}}
            sentNames == (DOMAIN outcome.sent.headers)
                             \ (IF AuthenticationApplied THEN {"Authorization"} ELSE {})
        IN /\ sentNames = enabled
           /\ \A n \in sentNames :
                  outcome.sent.headers[n]
                      = Substitute(LastEnabledValue(headers, n), subject.variables)

\* A request with a disabled and an enabled header of the same name and
\* different values has been sent with the enabled one's value.
C15_Witness ==
    /\ Outbound
    /\ \E i, j \in 1..Len(subject.request.headers) :
           /\ subject.request.headers[i].disabled
           /\ ~subject.request.headers[j].disabled
           /\ subject.request.headers[i].name = subject.request.headers[j].name
           /\ Substitute(subject.request.headers[i].value, subject.variables)
                  # Substitute(subject.request.headers[j].value, subject.variables)
    /\ DOMAIN outcome.sent.headers = {"Accept"}

----------------------------------------------------------------------------
(* Claims about execute_insomnia_request and getAncestorChain, checked
   under SpecInsomnia *)

InsomniaReturned ==
    outcome.tool = "execute_insomnia_request" /\ outcome.kind # "throw"

HasKey(object, key) == \E i \in 1..Len(object) : object[i].key = key
ValueOf(object, key) == object[CHOOSE i \in 1..Len(object) : object[i].key = key].value

IsFolder(id) == \E i \in 1..Len(insomnia.requestGroups) : insomnia.requestGroups[i]._id = id
IsWorkspace(id) == \E i \in 1..Len(insomnia.workspaces) : insomnia.workspaces[i]._id = id
FolderOf(id) ==
    insomnia.requestGroups[CHOOSE i \in 1..Len(insomnia.requestGroups) :
                               insomnia.requestGroups[i]._id = id]

\* The id reached from the executed request by following d parent links
\* through folders, "" once the links have left the folders.
RECURSIVE ParentAt(_, _)
ParentAt(requestId, d) ==
    IF d = 1
    THEN insomnia.requests[CHOOSE i \in 1..Len(insomnia.requests) :
                               insomnia.requests[i]._id = requestId].parentId
    ELSE LET p == ParentAt(requestId, d - 1) IN
         IF IsFolder(p) THEN FolderOf(p).parentId ELSE ""

Distances == 1..(Len(insomnia.requestGroups) + 1)
DistanceOf(requestId, id) ==
    CHOOSE d \in Distances :
        /\ ParentAt(requestId, d) = id
        /\ \A e \in Distances : ParentAt(requestId, e) = id => d <= e

\* The scopes a call draws variables from, each with its precedence rank.
ScopesOf(requestId, environmentId, hasOverride, overrideVariables) ==
    LET reached == {ParentAt(requestId, d) : d \in Distances}
        top == Len(insomnia.requestGroups) + 5
        workspaceScopes ==
            UNION {
              LET globalEnv == getGlobalEnvironment(insomnia, getWorkspaceProjectId(insomnia, w))
                  baseEnv == getBaseEnvironment(insomnia, w)
              IN (IF globalEnv.found THEN {[rank |-> 1, data |-> globalEnv.data]} ELSE {})
                 \cup (IF baseEnv.found THEN {[rank |-> 2, data |-> baseEnv.data]} ELSE {})
              : w \in {id \in reached : IsWorkspace(id)} }
        subScopes ==
            {[rank |-> 3, data |-> insomnia.environments[i].data] :
                 i \in {j \in 1..Len(insomnia.environments) :
                            insomnia.environments[j]._id = environmentId}}
        folderScopes ==
            {[rank |-> top - DistanceOf(requestId, f), data |-> FolderOf(f).environment] :
                 f \in {id \in reached : IsFolder(id)}}
        overrideScopes ==
            IF hasOverride THEN {[rank |-> top, data |-> overrideVariables]} ELSE {}
    IN workspaceScopes \cup subScopes \cup folderScopes \cup overrideScopes

CallScopes ==
    ScopesOf(outcome.requestId, outcome.environmentId, outcome.hasOverride,
             outcome.overrideVariables)
Defining(key) == {s \in CallScopes : HasKey(s.data, key)}
Highest(scopes) == CHOOSE s \in scopes : \A t \in scopes : t.rank <= s.rank

\* The text a placeholder of the key is replaced with in the request sent.
UsedFor(key) ==
    IF Defining(key) = {} THEN Placeholder(key)
    ELSE String(ValueOf(Highest(Defining(key)).data, key))

\* C1: when execute_insomnia_request returns, every variable key has, in
\* the merged map and in the URL sent, the value of the highest-precedence
\* scope that defines it (global < base < sub-environment < folders, a
\* nearer folder above a farther one < overrides), and a key that no scope
\* defines is not in the map.
C1_HighestPrecedenceScopeWins ==
    InsomniaReturned =>
        /\ \A key \in {KeyA, KeyB} :
               IF Defining(key) = {}
               THEN ~HasKey(outcome.environmentVariables, key)
               ELSE /\ HasKey(outcome.environmentVariables, key)
                    /\ ValueOf(outcome.environmentVariables, key)
                           = ValueOf(Highest(Defining(key)).data, key)
        /\ outcome.sent.url = UsedFor(KeyA) \o <<"/">> \o UsedFor(KeyB)

\* A call without overrides in which the global, base and sub-environment
\* and three folders all define key a, and the nearest folder's value is
\* the one sent.
C1_Witness ==
    /\ InsomniaReturned
    /\ ~outcome.hasOverride
    /\ Cardinality(Defining(KeyA)) = 6
    /\ outcome.sent.url = <<"1", "/", "1", "b">>

NumberOfFolders ==
    Cardinality({insomnia.requestGroups[i]._id : i \in 1..Len(insomnia.requestGroups)})

\* C10: while getAncestorChain runs and when it has returned, its loop has
\* run at most once per folder plus once, each time on an id not seen
\* before, and the chain holds no id twice and at most as many entries as
\* there are folders plus one.
C10_AncestorChainTerminates ==
    walk.pc \in {"walking", "returned"} =>
        /\ walk.iterations <= NumberOfFolders + 1
        /\ walk.iterations = Cardinality(walk.visited)
        /\ Len(walk.chain) <= NumberOfFolders + 1
        /\ \A i, j \in 1..Len(walk.chain) : walk.chain[i].id = walk.chain[j].id => i = j

\* getAncestorChain has returned because the parent of the farthest folder
\* is that folder itself, two folders gathered.
C10_Witness ==
    /\ walk.pc = "returned"
    /\ Len(walk.chain) = 2
    /\ walk.chain[1].type = "folder"
    /\ walk.currentId = walk.chain[1].id
    /\ walk.currentId \in walk.visited

RequestOf(requestId) ==
    insomnia.requests[CHOOSE i \in 1..Len(insomnia.requests) :
                          insomnia.requests[i]._id = requestId]

\* C11: the chain execute_insomnia_request got from getAncestorChain is
\* ordered root to leaf: a workspace entry is first, folder entries come
\* in decreasing distance from the request, the last entry is the
\* request's parent, every folder entry after the first position has the
\* entry before it as parent; and the folder environments were assigned
\* in the order of the chain.
C11_ChainRootToLeaf ==
    InsomniaReturned =>
        LET chain == outcome.ancestors
            folders == SelectSeq(chain, LAMBDA a : a.type = "folder")
            nonEmpty == SelectSeq(folders, LAMBDA a : FolderOf(a.id).environment # <<>>)
        IN
        /\ \A i \in 1..Len(chain) : chain[i].type = "workspace" => i = 1
        /\ \A i, j \in 1..Len(chain) :
               (i < j /\ chain[i].type = "folder") =>
                   /\ chain[j].type = "folder"
                   /\ DistanceOf(outcome.requestId, chain[i].id)
                          > DistanceOf(outcome.requestId, chain[j].id)
        /\ chain # <<>> => chain[Len(chain)].id = RequestOf(outcome.requestId).parentId
        /\ \A i \in 2..Len(chain) :
               chain[i].type = "folder" => FolderOf(chain[i].id).parentId = chain[i - 1].id
        /\ outcome.folderOrder = [i \in 1..Len(nonEmpty) |-> nonEmpty[i].id]

\* A call whose chain is the workspace followed by three folders, all
\* three environments assigned, the request's parent fld_1 last.
C11_Witness ==
    /\ InsomniaReturned
    /\ Len(outcome.ancestors) = 4
    /\ outcome.ancestors[1].type = "workspace"
    /\ outcome.ancestors[4].id = "fld_1"
    /\ Len(outcome.folderOrder) = 3
    /\ outcome.folderOrder[3] = "fld_1"

\* Whether an id names a folder or a workspace of the store.
Resolves(id) == IsFolder(id) \/ IsWorkspace(id)

\* C12: when getAncestorChain has returned, every entry of the chain names
\* a record of its type in the store; and when the parent links from the
\* request lead, after d - 1 folders, to an id that names neither a folder
\* nor a workspace, the chain is exactly those d - 1 folders, the farthest
\* first.
C12_UnresolvedParentStopsChain ==
    walk.pc = "returned" =>
        /\ \A i \in 1..Len(walk.chain) :
               IF walk.chain[i].type = "folder" THEN IsFolder(walk.chain[i].id)
               ELSE walk.chain[i].type = "workspace" /\ IsWorkspace(walk.chain[i].id)
        /\ \A d \in Distances :
               (/\ \A e \in 1..(d - 1) : IsFolder(ParentAt(walk.requestId, e))
                /\ \A e, g \in 1..(d - 1) :
                       ParentAt(walk.requestId, e) = ParentAt(walk.requestId, g) => e = g
                /\ ~Resolves(ParentAt(walk.requestId, d)))
               => walk.chain = [i \in 1..(d - 1) |->
                                    ChainEntry(ParentAt(walk.requestId, d - i), "folder")]

\* getAncestorChain has returned two folders after meeting, above them, a
\* folder id without record.
C12_Witness ==
    /\ walk.pc = "returned"
    /\ Len(walk.chain) = 2
    /\ walk.currentId = "fld_9"
    /\ ParentAt(walk.requestId, 3) = "fld_9"

KeysOf(object) == {object[i].key : i \in 1..Len(object)}

\* C13: a call of execute_insomnia_request on an existing request returns
\* a result or an error result of the HTTP call, never an exception, and
\* the variable map it substituted with has exactly the keys of the layers
\* that exist for the call (global, base, sub-environment, folders of the
\* chain, overrides), each with a value one of those layers gives it.
C13_MergeNeverFails ==
    (outcome.tool = "execute_insomnia_request"
        /\ \E i \in 1..Len(insomnia.requests) : insomnia.requests[i]._id = outcome.requestId)
    => /\ outcome.kind \in {"result", "errorResult"}
       /\ outcome.transport \in TransportOutcomes
       /\ outcome.sent.url = Substitute(InsomniaUrl, outcome.environmentVariables)
       /\ KeysOf(outcome.environmentVariables) = UNION {KeysOf(s.data) : s \in CallScopes}
       /\ \A key \in KeysOf(outcome.environmentVariables) :
              \E s \in Defining(key) :
                  ValueOf(outcome.environmentVariables, key) = ValueOf(s.data, key)

\* A call naming a sub-environment that does not exist, in a directory
\* with a base environment but without global environment, which still
\* returned the result of the HTTP call with the base and folder layers.
C13_Witness ==
    /\ InsomniaReturned
    /\ outcome.kind = "result"
    /\ outcome.environmentId = "env_s"
    /\ \A i \in 1..Len(insomnia.environments) : insomnia.environments[i]._id \notin {"env_s", "env_g"}
    /\ \E i \in 1..Len(insomnia.environments) : insomnia.environments[i]._id = "env_b"
    /\ KeyB \in KeysOf(outcome.environmentVariables)
    /\ outcome.folderOrder # <<>>

----------------------------------------------------------------------------
(* Claims about overlapping invocations, checked under Spec *)

\* C17: while an execute_request invocation is suspended at its HTTP call,
\* the only step taken is its own completion: no other invocation starts
\* (reading the store) or completes (writing it).
C17_RunToCompletion ==
    [][inflight # {} => (started' = started /\ inflight' = {})]_vars

\* C18: when an execute_request invocation completes while another one is
\* still suspended, its execution record is put at the front of the
\* history of its request and every record stored before stays, in its
\* order, behind it or in the other histories.
C18_NoRecordLostToInterleaving ==
    [][(Cardinality(inflight) >= 2 /\ inflight' \subseteq inflight /\ inflight' # inflight) =>
          \E call \in inflight :
              /\ inflight' = inflight \ {call}
              /\ \A r \in RequestIds :
                     LET before == HistoryOf(collections, r)
                         after == HistoryOf(collections', r)
                     IN IF r = call.requestId
                        THEN /\ after # <<>>
                             /\ after[1]._id = uuid + 1
                             /\ after[1].parentId = r
                             /\ SubSeq(after, 2, Len(after)) = before
                        ELSE after = before]_vars

----------------------------------------------------------------------------
(* Claims about the body sent, checked under SpecBody *)

\* The substituted bodies of SpecBody that are JSON texts, each with its
\* value.
IdObject(value) == JsonObject(<<Entry(<<"i", "d">>, value)>>)
JsonBodies ==
    { [text |-> BodyIdPrefix \o <<"5", "}">>, value |-> IdObject(JsonNumber(5))],
      [text |-> BodyIdPrefix \o <<"t", "r", "u", "e", "}">>, value |-> IdObject(JsonBoolean(TRUE))],
      [text |-> BodyIdPrefix \o <<Quote, "x", Quote, "}">>,
       value |-> IdObject(JsonString(<<"x">>))],
      [text |-> <<"5">>, value |-> JsonNumber(5)],
      [text |-> <<"t", "r", "u", "e">>, value |-> JsonBoolean(TRUE)],
      [text |-> <<Quote, "x", Quote>>, value |-> JsonString(<<"x">>)],
      [text |-> <<"[", "5", ",", " ", "0", "]">>,
       value |-> JsonArray(<<JsonNumber(5), JsonNumber(0)>>)],
      [text |-> <<"[", "t", "r", "u", "e", ",", " ", "0", "]">>,
       value |-> JsonArray(<<JsonBoolean(TRUE), JsonNumber(0)>>)],
      [text |-> <<"[", Quote, "x", Quote, ",", " ", "0", "]">>,
       value |-> JsonArray(<<JsonString(<<"x">>), JsonNumber(0)>>)] }

\* C14: for a body of MIME type application/json, either executor hands
\* axios the parsed value when the substituted text is a JSON text, and
\* the substituted text itself when it is not; it raises no exception.
C14_MalformedJsonPassesThrough ==
    (Outbound /\ subject.request.body.mimeType = "application/json") =>
        LET body == outcome.sent.body
            substituted == Substitute(subject.request.body.text, subject.variables)
        IN /\ body.hasBody
           /\ body.text = substituted
           /\ IF \E j \in JsonBodies : j.text = substituted
              THEN body.parsed /\ \E j \in JsonBodies : j.text = substituted /\ j.value = body.value
              ELSE ~body.parsed

\* execute_request has sent the text {"id": 5 unparsed.
C14_Witness ==
    /\ Outbound
    /\ outcome.path = "execute_request"
    /\ subject.request.body.mimeType = "application/json"
    /\ outcome.sent.body.text = BodyIdPrefix \o <<"5">>
    /\ ~outcome.sent.body.parsed

----------------------------------------------------------------------------
(* Claims about resource reads, checked under SpecResources *)

\* C16: a read of insomnia://request/<id>/history, <id> the id of a stored
\* request, is handled by the Request Execution History resource and
\* returns the history stored for that request.
C16_HistoryUriReachesHistoryHandler ==
    \A id \in RequestIds :
        (outcome.tool = "read_resource"
            /\ outcome.uri = RequestPrefix \o TextOfId(id) \o HistorySuffix)
        => /\ outcome.resource = "Request Execution History"
           /\ outcome.kind = "contents"
           /\ outcome.history = HistoryOf(collections, id)

----------------------------------------------------------------------------
(* Claims about the collections file, checked under SpecStore *)

\* What a reader of the structure sees: every member read gives the same
\* value (a missing member and one holding undefined both read undefined).
SameStructure(a, b) ==
    /\ a.workspace = b.workspace
    /\ a.folders = b.folders
    /\ a.environments = b.environments
    /\ Len(a.requests) = Len(b.requests)
    /\ \A i \in 1..Len(a.requests) :
          /\ a.requests[i]._id = b.requests[i]._id
          /\ a.requests[i].parentId = b.requests[i].parentId
          /\ a.requests[i].body.defined = b.requests[i].body.defined
          /\ a.requests[i].body.text = b.requests[i].body.text

\* C20: after saveCollection(id, s), getCollection(id) returns s with its
\* folders, requests and environments in the same order; saving the same
\* (id, s) again leaves the file unchanged; and the collection stored under
\* every other id is what it was before the save.
C20_SaveIsIdempotentOverwrite ==
    outcome.tool = "saveCollection" =>
        LET got == getCollection(collections, outcome.id) IN
        /\ got.found
        /\ SameStructure(got.structure, outcome.structure)
        /\ saveCollection(collections, outcome.id, outcome.structure) = collections
        /\ \A other \in StoreIds \ {outcome.id} :
              getCollection(collections, other) = getCollection(outcome.before, other)

----------------------------------------------------------------------------
(* Claims about the creating tools, checked under SpecCreate *)

\* The folder of the collection with this id, when there is one.
HasFolder(entry, id) == \E j \in 1..Len(entry.folders) : entry.folders[j]._id = id
FolderWithId(entry, id) ==
    entry.folders[CHOOSE j \in 1..Len(entry.folders) : entry.folders[j]._id = id]

\* Whether following parent links from parentId reaches the collection's
\* workspace through folders of the collection in at most fuel steps.
RECURSIVE ReachesWorkspace(_, _, _)
ReachesWorkspace(entry, parentId, fuel) ==
    IF parentId = entry.workspace._id THEN TRUE
    ELSE IF fuel = 0 \/ ~HasFolder(entry, parentId) THEN FALSE
    ELSE ReachesWorkspace(entry, FolderWithId(entry, parentId).parentId, fuel - 1)

\* C19: every folder and every request of a collection has a parent that is
\* the collection's workspace or a folder of the same collection, and its
\* parent chain reaches the workspace without repeating a folder.
C19_ParentChainsReachWorkspace ==
    \A i \in 1..Len(collections) :
       LET entry == collections[i] IN
       /\ \A j \in 1..Len(entry.folders) :
             ReachesWorkspace(entry, entry.folders[j].parentId, Len(entry.folders))
       /\ \A j \in 1..Len(entry.requests) :
             ReachesWorkspace(entry, entry.requests[j].parentId, Len(entry.folders))

----------------------------------------------------------------------------
(* Claims about update_request, delete_request and execute_request on one  *)
(* store, checked under SpecEdit                                           *)

\* Whether some collection of the store holds a request with this id.
Stored(store, requestId) ==
    \E ci \in 1..Len(store) : \E ri \in 1..Len(store[ci].requests) :
        store[ci].requests[ri]._id = requestId

\* C21: an invocation of execute_request, update_request or delete_request
\* with an id that matches no stored request throws the not-found error,
\* starts no HTTP call and leaves every collection unchanged.
C21_UnknownIdFailsWithoutEffect ==
    [][started' = started + 1 =>
          IF inflight' # inflight
          THEN \A call \in inflight' \ inflight : Stored(collections, call.requestId)
          ELSE /\ outcome'.tool \in {"execute_request", "update_request", "delete_request"}
               /\ outcome'.call = started'
               /\ ~Stored(collections, outcome'.requestId) =>
                     /\ outcome'.kind = "throw"
                     /\ outcome'.message = "Request not found"
                     /\ collections' = collections
                     /\ inflight' = inflight]_vars

C21_Witness ==
    /\ outcome.tool \in {"update_request", "delete_request"}
    /\ outcome.requestId = UnknownRequestId
    /\ outcome.kind = "throw"
    /\ started = MaxExec
    /\ inflight # {}

----------------------------------------------------------------------------
(* Claims about response headers, checked under SpecHeaders *)

\* Whether the normalized headers give every list-valued response header
\* as one string, its values joined by ", ".
ListsJoinedByCommaSpace(normalized) ==
    \A i \in 1..Len(subject.headers) :
       subject.headers[i].value.t = "array" =>
          \E j \in 1..Len(normalized) :
             /\ normalized[j].key = subject.headers[i].key
             /\ normalized[j].value = Join(subject.headers[i].value.items, <<",", " ">>)

\* C22: on transport success every multi-valued response header appears as
\* a single string with its values joined by ", ", in execute_request (the
\* result and the history record) and in execute_insomnia_request.
C22_MultiValuedHeadersJoined ==
    /\ outcome.tool = "execute_request" =>
          /\ ListsJoinedByCommaSpace(outcome.result)
          /\ ListsJoinedByCommaSpace(outcome.execution)
    /\ outcome.tool = "execute_insomnia_request" =>
          ListsJoinedByCommaSpace(outcome.result)

----------------------------------------------------------------------------
(* Claims about GraphQL bodies, checked under SpecGraphql *)

\* C23: when a request whose body is a GraphQL payload (body.graphql with a
\* query and a variables JSON text) is executed, the body sent is the object
\* {query, variables}: query is the substituted query and variables the
\* value parsed from the substituted variables text, or the empty object
\* when that text does not parse.
C23_GraphqlBodyRestructured ==
    (outcome.tool = "outbound" /\ subject.request.body.graphql.hasVariables) =>
        LET gql == subject.request.body.graphql
            r == JSONParse(Substitute(gql.variables, subject.variables))
        IN /\ outcome.sent.body.hasBody
           /\ outcome.sent.body.parsed
           /\ outcome.sent.body.value =
                 JsonObject(<<[key |-> "query",
                              value |-> JsonString(Substitute(gql.query, subject.variables))],
                             [key |-> "variables",
                              value |-> IF r.ok THEN r.value ELSE JsonObject(<<>>)]>>)

\* The store with the history of the request at (ci, ri) blanked.
WithoutHistoryAt(store, ci, ri) ==
    [store EXCEPT ![ci].requests[ri].hasHistory = FALSE,
                  ![ci].requests[ri].history = <<>>]

\* C24: an execute_request invocation that completes on a request R still
\* in the store changes the store only by putting one execution record with
\* parentId = R at the front of R's history, kept to MAX_HISTORY_LENGTH
\* records; every other field of R, the other requests, the folders, the
\* environments and the other collections are as before.
C24_ExecutionOnlyPrependsOneRecord ==
    [][\A call \in inflight :
          (inflight' = inflight \ {call} /\ Stored(collections, call.requestId)) =>
             LET l == LookupRequest(collections, call.requestId)
                 old == HistoryOf(collections, call.requestId)
                 new == HistoryOf(collections', call.requestId)
             IN /\ new # <<>>
                /\ new[1].parentId = call.requestId
                /\ ~\E k \in 1..Len(old) : old[k]._id = new[1]._id
                /\ Tail(new) = SubSeq(old, 1, Min(Len(old), MAX_HISTORY_LENGTH - 1))
                /\ WithoutHistoryAt(collections', l.ci, l.ri) =
                      WithoutHistoryAt(collections, l.ci, l.ri)]_vars

\* The stored request with this id.
StoredRequestOf(store, requestId) ==
    LET l == LookupRequest(store, requestId) IN store[l.ci].requests[l.ri]

\* C25: when an execute_request invocation on R finishes, whatever was
\* written to the store while it awaited its response stays: a deleted R is
\* still absent and nothing is written, and when R is there the store
\* differs from the one just before only in R's history, which is as
\* before or has the one new record in front.
C25_RecordingKeepsInterveningChanges ==
    [][\A call \in inflight :
          inflight' = inflight \ {call} =>
             IF ~Stored(collections, call.requestId)
             THEN collections' = collections
             ELSE LET l == LookupRequest(collections, call.requestId)
                      old == HistoryOf(collections, call.requestId)
                      new == HistoryOf(collections', call.requestId)
                  IN /\ WithoutHistoryAt(collections', l.ci, l.ri) =
                           WithoutHistoryAt(collections, l.ci, l.ri)
                     /\ \/ collections' = collections
                        \/ /\ new # <<>>
                           /\ new[1]._id = uuid + 1
                           /\ Tail(new) = SubSeq(old, 1, Min(Len(old), MAX_HISTORY_LENGTH - 1))]_vars

\* An execution of req_1 begun first, an update_request of req_1 done while
\* it was in flight, and the execution recorded after it.
C25_Witness ==
    /\ outcome.tool = "execute_request"
    /\ outcome.call = 1
    /\ outcome.requestId = "req_1"
    /\ outcome.kind = "result"
    /\ started = 2
    /\ Stored(collections, "req_1")
    /\ StoredRequestOf(collections, "req_1").modified = 1
    /\ StoredRequestOf(collections, "req_1").content.url = <<"y">>
    /\ Len(HistoryOf(collections, "req_1")) = 1

\* C27: update_request on a stored request sets the fields supplied and
\* the modified timestamp and nothing else: _id, parentId, created, the
\* history, the fields not supplied and the request's place in its
\* collection stay, and so does everything else in the store.
C27_UpdateChangesOnlySuppliedFields ==
    [][(started' = started + 1 /\ outcome'.tool = "update_request"
        /\ outcome'.call = started' /\ outcome'.kind = "result") =>
          LET l == LookupRequest(collections, outcome'.requestId)
              params == outcome'.params
              before == collections[l.ci].requests[l.ri]
              after == collections'[l.ci].requests[l.ri]
          IN /\ l.found
             /\ Len(collections') = Len(collections)
             /\ Len(collections'[l.ci].requests) = Len(collections[l.ci].requests)
             /\ after._id = before._id
             /\ after.parentId = before.parentId
             /\ after.created = before.created
             /\ after.hasHistory = before.hasHistory
             /\ after.history = before.history
             /\ after.content.url = IF params.hasUrl THEN params.url ELSE before.content.url
             /\ after.content.headers =
                   IF params.hasHeaders THEN params.headers ELSE before.content.headers
             /\ after.content.hasBody = (params.hasBody \/ before.content.hasBody)
             /\ after.content.body =
                   IF params.hasBody THEN params.body ELSE before.content.body
             /\ after.content.hasAuth = (params.hasAuthentication \/ before.content.hasAuth)
             /\ after.content.authentication =
                   IF params.hasAuthentication THEN params.authentication
                   ELSE before.content.authentication
             /\ [collections' EXCEPT ![l.ci].requests[l.ri] = before] = collections]_vars

\* req_3, which has a full history, has been given a new url only
C27_Witness ==
    /\ outcome.tool = "update_request"
    /\ outcome.kind = "result"
    /\ outcome.requestId = "req_3"
    /\ outcome.params.hasUrl /\ ~outcome.params.hasHeaders
    /\ Stored(collections, "req_3")
    /\ StoredRequestOf(collections, "req_3").content.url = <<"y">>
    /\ StoredRequestOf(collections, "req_3").modified = 1
    /\ StoredRequestOf(collections, "req_3").created = 0
    /\ Len(HistoryOf(collections, "req_3")) = MAX_HISTORY_LENGTH

----------------------------------------------------------------------------
(* Claims about InsomniaStorage.getCollection, checked under SpecCollect *)

\* Whether following parent links from the folder record reaches the
\* workspace in at most fuel further links.
RECURSIVE LinksReach(_, _, _)
LinksReach(parentId, workspaceId, fuel) ==
    IF parentId = workspaceId THEN TRUE
    ELSE IF fuel = 0 THEN FALSE
    ELSE \E f \in Records(insomnia.requestGroups) :
            f._id = parentId /\ LinksReach(f.parentId, workspaceId, fuel - 1)

FoldersReaching(workspaceId) ==
    {f._id : f \in {g \in Records(insomnia.requestGroups) :
                       LinksReach(g.parentId, workspaceId, Len(insomnia.requestGroups))}}

\* The elements of a sequence, as a set.
Range(seq) == {seq[i] : i \in 1..Len(seq)}

\* C28: getCollection(w) ends after at most one pass per folder and one
\* more, whatever the parent links (cycles included), and returns exactly
\* the folders whose parent links lead to w, the requests whose parent is w
\* or one of those folders, and the environments whose parent is w.
C28_CollectionIsReachableSet ==
    /\ walk.pc = "collecting" => walk.passes <= Len(insomnia.requestGroups) + 1
    /\ (outcome.tool = "getCollection" /\ outcome.found) =>
          LET w == outcome.workspaceId
              reaching == FoldersReaching(w)
          IN /\ Range(outcome.folders) = reaching
             /\ Len(outcome.folders) = Cardinality(reaching)
             /\ Range(outcome.requests) =
                   {r._id : r \in {q \in Records(insomnia.requests) :
                                      q.parentId = w \/ q.parentId \in reaching}}
             /\ Range(outcome.environments) =
                   {e._id : e \in {d \in Records(insomnia.environments) : d.parentId = w}}

\* a data set with a cycle beside a folder of the workspace: fld_1 is in
\* wrk_1, fld_2 and fld_3 are each other's parent, the request is in fld_2
C28_Witness ==
    /\ outcome.tool = "getCollection" /\ outcome.found
    /\ outcome.workspaceId = "wrk_1"
    /\ outcome.folders = <<"fld_1">>
    /\ outcome.requests = <<>>
    /\ \E f \in Records(insomnia.requestGroups) : f._id = "fld_2" /\ f.parentId = "fld_3"
    /\ \E f \in Records(insomnia.requestGroups) : f._id = "fld_3" /\ f.parentId = "fld_2"
    /\ \E r \in Records(insomnia.requests) : r.parentId = "fld_2"

----------------------------------------------------------------------------
(* Claims about export and import, checked under SpecRoundTrip *)

\* C29: after export_collection has written a collection to a file and
\* import_from_insomnia_export has read that file, the store holds under
\* the same workspace id the same set of folders, the same set of requests
\* and the same set of environments of the workspace, however deep the
\* folders are nested.
C29_ExportImportRoundTrip ==
    (outcome.tool = "import_from_insomnia_export" /\ outcome.kind = "result") =>
        LET before == subject.collection
            after == getCollection(collections, before.workspace._id)
        IN /\ after.found
           /\ Records(after.structure.folders) = Records(before.folders)
           /\ Records(after.structure.requests) = Records(before.requests)
           /\ {e \in Records(after.structure.environments) :
                  e.parentId = before.workspace._id}
              = {e \in Records(before.environments) : e.parentId = before.workspace._id}

----------------------------------------------------------------------------
(* Claims about set_environment_variable, checked under SpecEnvironment *)

EnvironmentsOf(store, collectionId) ==
    getCollection(store, collectionId).structure.environments

\* The first environment whose parent is the workspace; the precondition
\* gives that there is one.
BaseEnvironmentOf(store, collectionId) ==
    LET environments == EnvironmentsOf(store, collectionId)
    IN environments[CHOOSE i \in 1..Len(environments) :
                       /\ environments[i].parentId = collectionId
                       /\ \A j \in 1..(i - 1) : environments[j].parentId # collectionId]

\* C30: a successful set_environment_variable creates an environment only
\* when the collection has none: without environmentId, on a collection
\* that has an environment, it adds no environment and sets the key in the
\* base environment, keeping that environment's other keys; with the id of
\* an existing environment it adds no environment and sets the key there.
C30_OneBaseEnvironment ==
    [][ (outcome'.tool = "set_environment_variable" /\ outcome'.kind = "result") =>
          LET c == outcome'.collectionId
              before == EnvironmentsOf(collections, c)
              after == EnvironmentsOf(collections', c)
          IN /\ (~outcome'.environmentId.given /\ Len(before) > 0) =>
                   /\ Len(after) = Len(before)
                   /\ LET old == BaseEnvironmentOf(collections, c)
                          new == BaseEnvironmentOf(collections', c)
                      IN /\ new._id = old._id
                         /\ new.data = DataSet(old.data, outcome'.key, outcome'.value)
             /\ (outcome'.environmentId.given
                   /\ \E i \in 1..Len(before) : before[i]._id = outcome'.environmentId.value) =>
                   /\ Len(after) = Len(before)
                   /\ \E i \in 1..Len(after) :
                         /\ after[i]._id = outcome'.environmentId.value
                         /\ outcome'.key \in DOMAIN after[i].data
                         /\ after[i].data[outcome'.key] = outcome'.value
      ]_vars

====
